---- MODULE Spec2Model ----
(***************************************************************************)
(* Model of the Mattermost notify integration for Home Assistant:         *)
(*   custom_components/mattermost/__init__.py  (MattermostHTTPClient,     *)
(*       async_setup_entry, async_unload_entry)                           *)
(*   custom_components/mattermost/notify.py    (MattermostNotification-   *)
(*       Service: the send dispatcher and its three send paths)           *)
(*                                                                         *)
(* Strings that the code inspects character by character (channel         *)
(* references) are sequences of one-character strings.  Texts that the    *)
(* code only concatenates (title, message, rendered text, file names) are *)
(* sequences of tokens; the empty sequence stands for both None and "",   *)
(* which Python's truth test does not distinguish.  Python dicts are      *)
(* functions whose DOMAIN is the set of keys.                             *)
(***************************************************************************)
EXTENDS Integers, Sequences, FiniteSets, TLC

\* ---------------------------------------------------------------- bounds
MaxTargets == 2        \* longest target list of a send request

\* ------------------------------------------------------ program constants
ChannelIdLen == 26     \* length of a Mattermost channel ID
HTTP_OK == 200
HTTP_CREATED == 201
HTTP_UNAUTHORIZED == 401
HTTP_FORBIDDEN == 403

\* A request that raised (connection error, timeout, malformed body) has no
\* status; Exc stands for that outcome wherever a status is expected.
Exc == -1

\* The status recorded for a request that was never issued.
NotAsked == 0

\* The value None where the code returns or passes None for a string.
None == <<"<None>">>

\* ------------------------------------------------------------- characters
\* The letters and digits of ASCII: the characters c below U+0080 with
\* c.isalnum().  Every other character is written as a piece of its own,
\* see IsWide.
Alnum ==
    {"0", "1", "2", "3", "4", "5", "6", "7", "8", "9", "A", "B", "C",
     "D", "E", "F", "G", "H", "I", "J", "K", "L", "M", "N", "O", "P",
     "Q", "R", "S", "T", "U", "V", "W", "X", "Y", "Z", "a", "b", "c",
     "d", "e", "f", "g", "h", "i", "j", "k", "l", "m", "n", "o", "p",
     "q", "r", "s", "t", "u", "v", "w", "x", "y", "z"}

HexDigits ==
    {"0", "1", "2", "3", "4", "5", "6", "7", "8", "9",
     "A", "B", "C", "D", "E", "F"}

\* A character beyond ASCII is written as one piece: a circumflex, the
\* class the Unicode database of the interpreter gives the character, and
\* its code point in four to six hexadecimal digits.  The class is L for a
\* letter (c.isalpha()), N for a decimal, digit or other numeric character
\* (c.isdecimal(), c.isdigit() or c.isnumeric()) and O for any other
\* character: "^L00E9" is the letter e with acute, "^L0151" the letter o
\* with double acute, "^N00B2" the superscript two, "^N0663" the
\* Arabic-Indic digit three, "^O00D7" the multiplication sign, "^O2014" the
\* em dash.  A circumflex of the text itself is written "^O005E".  A piece
\* of any other form is plain text.
IsWide(c) ==
    /\ Len(c) \in 6..8
    /\ SubSeq(c, 1, 1) = "^"
    /\ SubSeq(c, 2, 2) \in {"L", "N", "O"}
    /\ \A j \in 3..Len(c) : SubSeq(c, j, j) \in HexDigits

WideIsAlnum(c) == SubSeq(c, 2, 2) \in {"L", "N"}

\* str.isalnum(): non-empty and every character alphanumeric.  A piece of
\* plain text is tested character by character.
IsAlnum(s) ==
    /\ \E i \in 1..Len(s) : Len(s[i]) > 0
    /\ \A i \in 1..Len(s) :
          IF IsWide(s[i]) THEN WideIsAlnum(s[i])
          ELSE \A j \in 1..Len(s[i]) : SubSeq(s[i], j, j) \in Alnum

\* str.lstrip("#"): drop every leading '#'.
RECURSIVE LStripHash(_)
LStripHash(s) ==
    IF s # <<>> /\ Head(s) = "#" THEN LStripHash(Tail(s)) ELSE s

\* Variant: the test for a channel ID by length alone.
LooksLikeChannelIdByLength(name) == Len(name) = ChannelIdLen

\* The test both resolvers use to take a reference for a channel ID.
LooksLikeChannelId(name) == Len(name) = ChannelIdLen /\ IsAlnum(name)

\* ", ".join(names) and friends: the names with sep between neighbours.
RECURSIVE Join(_, _)
Join(names, sep) ==
    IF names = <<>> THEN <<>>
    ELSE IF Len(names) = 1 THEN names[1]
    ELSE names[1] \o sep \o Join(Tail(names), sep)

\* A dict lookup with a default, d.get(k, default).
Get(d, k, default) == IF k \in DOMAIN d THEN d[k] ELSE default

EmptyDict == <<>>

\* ------------------------------------------------------------ the server
\* Channel IDs a server may answer with.  IdA and IdB have the documented
\* shape (26 alphanumeric characters); ShortId does not.
IdA == [i \in 1..ChannelIdLen |-> "a"]
IdB == [i \in 1..ChannelIdLen |-> "b"]
ShortId == <<"x", "y">>

\* What the server answers during one channel lookup: the status of the
\* team list and the teams it lists, and per team the status and body of
\* the slug lookup and of the channel list.
Team(id, slugStatus, slugId, chStatus, channels) ==
    [id |-> id, slugStatus |-> slugStatus, slugId |-> slugId,
     chStatus |-> chStatus, channels |-> channels]

World(teamsStatus, teams) == [teamsStatus |-> teamsStatus, teams |-> teams]

Channel(display_name, id) == [display_name |-> display_name, id |-> id]

\* --------------------------------- MattermostHTTPClient._get_channel_id
TeamsReq == [kind |-> "teams"]
SlugReq(team, name) == [kind |-> "slug", team |-> team, name |-> name]
ChannelsReq(team) == [kind |-> "channels", team |-> team]

Found(id, reqs) == [id |-> id, reqs |-> reqs]

\* "if not channel_id": None and the empty string are both false.
NoChannel(id) == id = None \/ id = <<>>

\* if display_name in target_display_names: some listed channel has the
\* display name "#name" or "name".
HasDisplayName(channels, name) ==
    \E i \in 1..Len(channels) :
        channels[i].display_name \in {<<"#">> \o name, name}

\* for ch in channels: the id of the first channel whose display name is
\* "#name" or "name"; None when there is none.
RECURSIVE ScanDisplayNames(_, _)
ScanDisplayNames(channels, name) ==
    IF channels = <<>> THEN None
    ELSE IF Head(channels).display_name \in {<<"#">> \o name, name}
         THEN Head(channels).id
         ELSE ScanDisplayNames(Tail(channels), name)

\* Variant: the search goes through every team and the last match wins.
RECURSIVE SearchTeamsLastWins(_, _)
SearchTeamsLastWins(teams, name) ==
    IF teams = <<>> THEN Found(None, <<>>)
    ELSE
      LET t == Head(teams)
          slug == SlugReq(t.id, name)
          list == ChannelsReq(t.id)
          here == IF t.slugStatus = HTTP_OK THEN Found(t.slugId, <<slug>>)
                  ELSE IF t.chStatus = HTTP_OK
                  THEN Found(ScanDisplayNames(t.channels, name), <<slug, list>>)
                  ELSE Found(None, <<slug, list>>)
          rest == SearchTeamsLastWins(Tail(teams), name)
      IN  Found(IF rest.id # None THEN rest.id ELSE here.id,
                here.reqs \o rest.reqs)

\* Variant: a slug lookup answered with a status other than 200 or 404
\* ends the whole lookup without a channel.
RECURSIVE SearchTeamsSlugErrorFails(_, _)
SearchTeamsSlugErrorFails(teams, name) ==
    IF teams = <<>> THEN Found(None, <<>>)
    ELSE
      LET t == Head(teams)
          slug == SlugReq(t.id, name)
          list == ChannelsReq(t.id)
      IN  IF t.slugStatus = Exc THEN Found(None, <<slug>>)
          ELSE IF t.slugStatus = HTTP_OK THEN Found(t.slugId, <<slug>>)
          ELSE IF t.slugStatus # 404 THEN Found(None, <<slug>>)
          ELSE IF t.chStatus = Exc THEN Found(None, <<slug, list>>)
          ELSE
            IF t.chStatus = HTTP_OK /\ HasDisplayName(t.channels, name)
            THEN Found(ScanDisplayNames(t.channels, name), <<slug, list>>)
            ELSE LET rest == SearchTeamsSlugErrorFails(Tail(teams), name)
                 IN  Found(rest.id, <<slug, list>> \o rest.reqs)

\* for team in teams: slug lookup, then the display-name scan.  The first
\* channel with a matching display name ends the lookup with its id,
\* whatever that id is.  A request that raises ends the whole lookup with
\* None (the except clause).
RECURSIVE SearchTeams(_, _)
SearchTeams(teams, name) ==
    IF teams = <<>> THEN Found(None, <<>>)
    ELSE
      LET t == Head(teams)
          slug == SlugReq(t.id, name)
          list == ChannelsReq(t.id)
      IN  IF t.slugStatus = Exc THEN Found(None, <<slug>>)
          ELSE IF t.slugStatus = HTTP_OK THEN Found(t.slugId, <<slug>>)
          ELSE IF t.chStatus = Exc THEN Found(None, <<slug, list>>)
          ELSE
            IF t.chStatus = HTTP_OK /\ HasDisplayName(t.channels, name)
            THEN Found(ScanDisplayNames(t.channels, name), <<slug, list>>)
            ELSE LET rest == SearchTeams(Tail(teams), name)
                 IN  Found(rest.id, <<slug, list>> \o rest.reqs)

\* Variant: the lookup without the test for a channel ID; every reference
\* is searched for on the server.
ClientGetChannelIdAlwaysAsks(channel, w) ==
    LET channel_name == LStripHash(channel)
    IN  IF w.teamsStatus = Exc THEN Found(None, <<TeamsReq>>)
        ELSE IF w.teamsStatus # HTTP_OK THEN Found(None, <<TeamsReq>>)
        ELSE LET r == SearchTeams(w.teams, channel_name)
             IN  Found(r.id, <<TeamsReq>> \o r.reqs)

\* The lookup of a channel reference against the answers w: the channel ID
\* (or None) and the requests issued, in order.
ClientGetChannelId(channel, w) ==
    LET channel_name == LStripHash(channel)
    IN  IF LooksLikeChannelId(channel_name) THEN Found(channel_name, <<>>)
        ELSE IF w.teamsStatus = Exc THEN Found(None, <<TeamsReq>>)
        ELSE IF w.teamsStatus # HTTP_OK THEN Found(None, <<TeamsReq>>)
        ELSE LET r == SearchTeams(w.teams, channel_name)
             IN  Found(r.id, <<TeamsReq>> \o r.reqs)

\* ------------- MattermostNotificationService._async_get_channel_id
\* The dispatcher's own resolver: the same ID test, then the client lookup.
\* What the client lookup gives is handed on when it is true and None
\* otherwise ("if channel_id: return channel_id / else: return None").
NotifyGetChannelId(channel_name, w) ==
    LET name == LStripHash(channel_name)
        r == ClientGetChannelId(name, w)
    IN  IF LooksLikeChannelId(name) THEN Found(name, <<>>)
        ELSE IF NoChannel(r.id) THEN Found(None, r.reqs)
        ELSE r

\* ------------------------------------ MattermostHTTPClient.post_message
\* post_data: channel_id and message, and props when kwargs carries it.
PostData(channel_id, message, kwargs) ==
    IF "props" \in DOMAIN kwargs
    THEN [channel_id |-> channel_id, message |-> message,
          props |-> kwargs["props"]]
    ELSE [channel_id |-> channel_id, message |-> message]

PostReq(post_data) == [kind |-> "post", json |-> post_data]

Sent(ok, reqs) == [ok |-> ok, reqs |-> reqs]

\* Variant: any of the answers 200 and 201 counts as posted.
ClientPostMessageAcceptsOk(channel, message, kwargs, w, status) ==
    LET r == ClientGetChannelId(channel, w)
    IN  IF NoChannel(r.id) THEN Sent(FALSE, r.reqs)
        ELSE Sent(status \in {HTTP_OK, HTTP_CREATED},
                  r.reqs \o <<PostReq(PostData(r.id, message, kwargs))>>)

\* kwargs is the dict of extra keyword arguments ({} or {"props": ...});
\* status is the answer of the post endpoint (Exc: the request raised).
ClientPostMessage(channel, message, kwargs, w, status) ==
    LET r == ClientGetChannelId(channel, w)
    IN  IF NoChannel(r.id) THEN Sent(FALSE, r.reqs)
        ELSE Sent(status = HTTP_CREATED,
                  r.reqs \o <<PostReq(PostData(r.id, message, kwargs))>>)

\* ------------------------------------- MattermostHTTPClient.upload_file
UploadReq(channel_id, filename, bytes) ==
    [kind |-> "upload", channel_id |-> channel_id, filename |-> filename,
     bytes |-> bytes]

\* Variant: an upload request that raises is swallowed and the call
\* reports the file as uploaded.
ClientUploadFileSwallows(channel, file, filename, w, status) ==
    LET r == ClientGetChannelId(channel, w)
    IN  IF NoChannel(r.id) THEN Sent(FALSE, r.reqs)
        ELSE IF ~file.exists THEN Sent(FALSE, r.reqs)
        ELSE Sent(status \in {HTTP_CREATED, Exc},
                  r.reqs \o <<UploadReq(r.id,
                                        IF filename # <<>> THEN filename
                                        ELSE file.name,
                                        file.bytes)>>)

\* file is what open(file_path, 'rb') finds: [exists, name, bytes], name
\* being os.path.basename(file_path).  filename is the third argument.
ClientUploadFile(channel, file, filename, w, status) ==
    LET r == ClientGetChannelId(channel, w)
    IN  IF NoChannel(r.id) THEN Sent(FALSE, r.reqs)
        ELSE IF ~file.exists THEN Sent(FALSE, r.reqs)
        ELSE Sent(status = HTTP_CREATED,
                  r.reqs \o <<UploadReq(r.id,
                                        IF filename # <<>> THEN filename
                                        ELSE file.name,
                                        file.bytes)>>)

\* ------------------------------------------------------ notify.py: schema
AttachmentKeys ==
    {"fallback", "color", "pretext", "author_name", "author_link",
     "author_icon", "title", "title_link", "text", "fields", "image_url",
     "thumb_url", "footer", "footer_icon"}

\* FILE_PATH_SCHEMA / FILE_URL_SCHEMA: exactly {path}, or url with the
\* credentials either both present or both absent; no other key.
FilePathSchemaOk(f) == DOMAIN f = {"path"}

FileUrlSchemaOk(f) ==
    /\ "url" \in DOMAIN f
    /\ DOMAIN f \subseteq {"url", "username", "password"}
    /\ ("username" \in DOMAIN f) <=> ("password" \in DOMAIN f)

\* DATA_FILE_SCHEMA: the one key file.
DataFileSchemaOk(data) ==
    /\ DOMAIN data = {"file"}
    /\ FilePathSchemaOk(data["file"]) \/ FileUrlSchemaOk(data["file"])

\* DATA_TEXT_ONLY_SCHEMA: at most the key attachments, a list of dicts
\* with known keys only.
DataTextOnlySchemaOk(data) ==
    /\ DOMAIN data \subseteq {"attachments"}
    /\ "attachments" \in DOMAIN data =>
         \A i \in 1..Len(data["attachments"]) :
            DOMAIN data["attachments"][i] \subseteq AttachmentKeys

\* DATA_SCHEMA(data) does not raise vol.Invalid.
DataSchemaOk(data) == DataFileSchemaOk(data) \/ DataTextOnlySchemaOk(data)

\* ----------------------------------------------------- notify.py: helpers
\* _sanitize_channel_names
SanitizeChannelNames(channel_list) ==
    [i \in 1..Len(channel_list) |-> LStripHash(channel_list[i])]

Bold == "**"
Blank == "\n\n"

\* Variant: a lone title is posted without the bold markers.
TextMessagePlainTitle(title, message, attachments) ==
    IF title # <<>> /\ message # <<>>
    THEN [skip |-> FALSE, text |-> <<Bold>> \o title \o <<Bold, Blank>> \o message]
    ELSE IF title # <<>> THEN [skip |-> FALSE, text |-> title]
    ELSE IF message # <<>> THEN [skip |-> FALSE, text |-> message]
    ELSE [skip |-> attachments = <<>>, text |-> <<>>]

\* Variant: the early return for an empty request is missing.
TextMessageNeverSkips(title, message, attachments) ==
    IF title # <<>> /\ message # <<>>
    THEN [skip |-> FALSE, text |-> <<Bold>> \o title \o <<Bold, Blank>> \o message]
    ELSE IF title # <<>> THEN [skip |-> FALSE, text |-> <<Bold>> \o title \o <<Bold>>]
    ELSE [skip |-> FALSE, text |-> message]

\* The text of a text send (the if/elif chain opening
\* _async_send_text_message); skip is the early return.
TextMessage(title, message, attachments) ==
    IF title # <<>> /\ message # <<>>
    THEN [skip |-> FALSE, text |-> <<Bold>> \o title \o <<Bold, Blank>> \o message]
    ELSE IF title # <<>>
    THEN [skip |-> FALSE, text |-> <<Bold>> \o title \o <<Bold>>]
    ELSE IF message # <<>>
    THEN [skip |-> FALSE, text |-> message]
    ELSE IF attachments # <<>>
    THEN [skip |-> FALSE, text |-> <<>>]
    ELSE [skip |-> TRUE, text |-> <<>>]

\* full_message of the two file sends.
FileMessage(title, message) ==
    IF title # <<>> THEN <<Bold>> \o title \o <<Bold, Blank>> \o message
    ELSE message

DefaultAuthorName == <<"Home Assistant">>
DefaultAuthorIcon ==
    <<"https://www.home-assistant.io/images/favicon-192x192-full.png">>

\* Variant: author_name is set without testing for a given one.
WithAuthorOverwritten(attachment) ==
    [k \in DOMAIN attachment \cup {"author_name", "author_icon"} |->
        IF k = "author_name" THEN DefaultAuthorName
        ELSE IF k \in DOMAIN attachment THEN attachment[k]
        ELSE DefaultAuthorIcon]

\* attachment.copy() with the two author keys set when missing.
WithAuthorDefaults(attachment) ==
    [k \in DOMAIN attachment \cup {"author_name", "author_icon"} |->
        IF k \in DOMAIN attachment THEN attachment[k]
        ELSE IF k = "author_name" THEN DefaultAuthorName
        ELSE DefaultAuthorIcon]

\* post_kwargs of a text send.
PostKwargs(attachments) ==
    IF attachments # <<>>
    THEN [props |->
            [attachments |->
               [i \in 1..Len(attachments) |->
                   WithAuthorDefaults(attachments[i])]]]
    ELSE EmptyDict

\* The aggregate error of a send: the prefix and ', '.join(failed_targets).
Comma == ", "
SendError(prefix, failed_targets) ==
    <<prefix>> \o Join(failed_targets, <<Comma>>)

\* ------------------------------------------------------- the host (hass)
\* hass.config.is_allowed_path / is_allowed_external_url and the local
\* disk.  A path is [dir, name], name being its basename; a URL is
\* [host, name], name being the basename of its path.
Path(dir, name) == [dir |-> dir, name |-> name]
Url(host, name) == [host |-> host, name |-> name]

PathOk == Path(<<"config", "www">>, <<"a.png">>)
PathGone == Path(<<"config", "www">>, <<"gone.png">>)
PathSecret == Path(<<"etc">>, <<"passwd">>)
UrlOk == Url("https://ok.example", <<"cat.jpg">>)
UrlEvil == Url("http://evil.example", <<"x.bin">>)

AllowlistExternalDirs == {<<"config", "www">>}
AllowlistExternalUrls == {"https://ok.example"}
LocalFiles == {PathOk, PathSecret}

IsAllowedPath(file_path) == file_path.dir \in AllowlistExternalDirs
IsFile(file_path) == file_path \in LocalFiles
IsAllowedExternalUrl(url) == url.host \in AllowlistExternalUrls

PathStr(file_path) == file_path.dir \o file_path.name
UrlStr(url) == <<url.host>> \o url.name

\* The bytes open(file_path, 'rb') reads from a local file, and the body
\* the remote server answers a download with.
BytesAt(file_path) == <<"bytes of">> \o file_path.name
BodyAt(url) == <<"body of">> \o url.name

\* _get_filename_from_url
GetFilenameFromUrl(url) == url.name

\* self._config[CONF_DEFAULT_CHANNEL]
DefaultChannel == <<"#", "t">>

\* ------------------------------------------------------------------ state
SendIds == {1, 2}

EntryIds == {"e1", "e2"}

VARIABLES
    send,        \* send[s]: the locals of send s (one async_send_message call)
    temp_files,  \* the temporary files on disk: a set of [path, bytes]
    entry,       \* entry[e]: config entry e and the setup call in flight
    hass_data,   \* hass.data: {} or {DOMAIN: {entry_id: {...}}}
    platforms,   \* the entries whose notify platform load was started
    call         \* one call of a MattermostHTTPClient operation on its own

sendVars == <<send, temp_files>>
setupVars == <<entry, hass_data, platforms>>
clientVars == <<call>>
vars == <<send, temp_files, entry, hass_data, platforms, call>>

\* The locals of a send before it starts; pc = "idle" is a send that was
\* never requested.  log is the sequence of HTTP requests the send has
\* issued; resolved and returned record, per attempted target, what the
\* resolver and the client call gave back, and raised_at the positions of
\* the targets whose loop body raised (the loop's except clause).  asked
\* holds the requests the awaited call in progress has issued so far (<<>>
\* between calls), and met, per attempted target, the answers the server
\* and the disk gave while the target was handled.
NewSend(pc, message, title, has_target, target, data) ==
    [pc |-> pc, message |-> message, title |-> title,
     has_target |-> has_target, target |-> target, data |-> data,
     kind |-> "none", targets |-> <<>>, full_message |-> <<>>,
     attachments |-> <<>>, file_path |-> Path(<<>>, <<>>),
     url |-> Url("", <<>>), auth |-> FALSE, filename |-> <<>>,
     file_content |-> <<>>,
     idx |-> 1, channel_id |-> None, failed_targets |-> <<>>,
     temp_file_path |-> Path(<<>>, <<>>), temp_made |-> 0,
     raised_at |-> {},
     raised |-> FALSE, error |-> <<>>,
     log |-> <<>>, resolved |-> <<>>, returned |-> <<>>,
     asked |-> <<>>, met |-> <<>>]

IdleSend == NewSend("idle", <<>>, <<>>, FALSE, <<>>, EmptyDict)

\* The send ends by returning None / by raising HomeAssistantError(error).
Return(me) == [me EXCEPT !.pc = "done"]
Raise(me, error) == [me EXCEPT !.pc = "done", !.raised = TRUE, !.error = error]

\* ------------------------------------------- the answers a send can meet
\* The channels a server may list under a display name only.
DisplayNamed == {<<"g">>, LStripHash(DefaultChannel)}

\* The server answers a channel lookup for name can meet during a send:
\* no team at all, a slug hit with a well-formed ID, and, for the channels
\* listed under a display name only, a display-name hit whose ID does not
\* have the 26-character shape.
SendWorlds(name) ==
    { World(HTTP_OK, <<>>),
      World(HTTP_OK, <<Team("t1", HTTP_OK, IdA, HTTP_OK, <<>>)>>) }
    \cup
    { World(HTTP_OK,
            <<Team("t1", 404, None, HTTP_OK,
                   <<Channel(<<"#">> \o n, ShortId)>>)>>) :
        n \in {LStripHash(name)} \cap DisplayNamed }

\* The answers the client's own lookup of a resolved channel can meet (it
\* asks the server only when the ID does not have the 26-character shape).
ClientWorlds(name) ==
    { World(HTTP_OK, <<>>),
      World(HTTP_OK, <<Team("t1", HTTP_OK, IdA, HTTP_OK, <<>>)>>) }

\* The answers of the post and upload endpoints.
SendStatuses == {HTTP_CREATED, HTTP_OK, Exc}

\* -------------------------- MattermostNotificationService: the dispatcher
\* kwargs.get(ATTR_TARGET, [self._config[CONF_DEFAULT_CHANNEL]])
RequestedTargets(has_target, target) ==
    IF has_target THEN target ELSE <<DefaultChannel>>

\* _async_send_text_message up to its loop.
SendTextMessage(me, attachments) ==
    LET tm == TextMessage(me.title, me.message, attachments)
    IN  IF tm.skip THEN Return(me)
        ELSE [me EXCEPT !.kind = "text", !.pc = "loop",
                        !.full_message = tm.text,
                        !.attachments = attachments]

\* Variant: the os.path.isfile test is missing.
SendLocalFileMessageNoIsFile(me, file_path) ==
    IF ~IsAllowedPath(file_path)
    THEN Raise(me, <<"File path not allowed: ">> \o PathStr(file_path))
    ELSE [me EXCEPT !.kind = "local", !.pc = "loop",
                    !.file_path = file_path]

\* _async_send_local_file_message up to its loop.
SendLocalFileMessage(me, file_path) ==
    IF ~IsAllowedPath(file_path)
    THEN Raise(me, <<"File path not allowed: ">> \o PathStr(file_path))
    ELSE IF ~IsFile(file_path)
    THEN Raise(me, <<"File does not exist: ">> \o PathStr(file_path))
    ELSE [me EXCEPT !.kind = "local", !.pc = "loop",
                    !.file_path = file_path]

\* _async_send_remote_file_message up to the download.
SendRemoteFileMessage(me, url, username, password) ==
    IF ~IsAllowedExternalUrl(url)
    THEN Raise(me, <<"URL not allowed: ">> \o UrlStr(url))
    ELSE [me EXCEPT !.kind = "remote", !.pc = "download", !.url = url,
                    !.filename = GetFilenameFromUrl(url),
                    !.auth = (username # <<>> /\ password # <<>>)]

\* Variant: the data is used as it came, valid or not.
DispatchKeepsInvalidData(me) ==
    LET data == me.data
        targets == SanitizeChannelNames(
                       RequestedTargets(me.has_target, me.target))
        started == [me EXCEPT !.targets = targets]
    IN  IF "file" \notin DOMAIN data
        THEN SendTextMessage(started, Get(data, "attachments", <<>>))
        ELSE IF "path" \in DOMAIN data["file"]
        THEN SendLocalFileMessage(started, data["file"]["path"])
        ELSE SendRemoteFileMessage(started, data["file"]["url"],
                                   Get(data["file"], "username", <<>>),
                                   Get(data["file"], "password", <<>>))

\* async_send_message: validate data (invalid data becomes {}), take the
\* targets, and branch on the message type.
Dispatch(me) ==
    LET data == IF DataSchemaOk(me.data) THEN me.data ELSE EmptyDict
        targets == SanitizeChannelNames(
                       RequestedTargets(me.has_target, me.target))
        started == [me EXCEPT !.targets = targets]
    IN  IF "file" \notin DOMAIN data
        THEN SendTextMessage(started, Get(data, "attachments", <<>>))
        ELSE IF "path" \in DOMAIN data["file"]
        THEN SendLocalFileMessage(started, data["file"]["path"])
        ELSE SendRemoteFileMessage(started, data["file"]["url"],
                                   Get(data["file"], "username", <<>>),
                                   Get(data["file"], "password", <<>>))

AsyncSendMessage(s) ==
    /\ send[s].pc = "start"
    /\ send' = [send EXCEPT ![s] = Dispatch(send[s])]
    /\ UNCHANGED <<temp_files, setupVars, clientVars>>

\* session.get(url, auth=auth), raise_for_status(), resp.read()
DownloadReq(url, auth) == [kind |-> "download", url |-> url, auth |-> auth]

Downloaded(me, ok) ==
    LET asked == [me EXCEPT !.log = @ \o <<DownloadReq(me.url, me.auth)>>]
    IN  IF ok THEN [asked EXCEPT !.pc = "loop",
                                 !.file_content = BodyAt(me.url)]
        ELSE Raise(asked, <<"Failed to download file from ">>
                              \o UrlStr(me.url) \o <<": ">> \o <<"err">>)

Download(s) ==
    /\ send[s].pc = "download"
    /\ \E ok \in BOOLEAN : send' = [send EXCEPT ![s] = Downloaded(send[s], ok)]
    /\ UNCHANGED <<temp_files, setupVars, clientVars>>

\* A call of the client awaits its requests one after another (session.get
\* and session.post under async with), and the event loop may run the
\* other send at each of them.  A step of a call issues the call's next
\* request and takes its answer; the answer that ends the call is followed
\* at once by the code up to the next await.  The requests reqs of a whole
\* call agree with a call in progress when they begin with the requests
\* it has issued and go on after them.
Agrees(asked, reqs) ==
    /\ Len(asked) <= Len(reqs)
    /\ SubSeq(reqs, 1, Len(asked)) = asked
    /\ asked # <<>> => Len(asked) < Len(reqs)

\* The call has another request to await after its next one.
Awaits(me, reqs) == Len(me.asked) + 1 < Len(reqs)

\* The call issued its next request, got the answer and goes on.
Asking(me, reqs) ==
    [me EXCEPT !.asked = Append(@, reqs[Len(me.asked) + 1]),
               !.log = Append(@, reqs[Len(me.asked) + 1])]

\* The requests of a call that ends, after those it issued on the way.
Rest(me, reqs) == SubSeq(reqs, Len(me.asked) + 1, Len(reqs))

\* The answers a lookup met: the server's, when it was asked at all.
NoAnswer == World(Exc, <<>>)
Heard(reqs, w) == IF reqs = <<>> THEN NoAnswer ELSE w

\* What the handling of a target has met once its resolution ended: the
\* answers to the resolver's lookup, and as yet no temporary file and no
\* client call.
MetBy(reqs, w) ==
    [w |-> Heard(reqs, w), temp |-> "none", cw |-> NoAnswer,
     status |-> NotAsked]

\* The step a resolved target takes next, by the kind of send.
AfterResolve(kind) ==
    IF kind = "text" THEN "post"
    ELSE IF kind = "local" THEN "upload" ELSE "mktemp"

\* Variant: failed_targets is an attribute of the service instead of a
\* local of the call, so a send that records a failure sees the failures
\* the other sends in flight have recorded.
ResolvedSharedFailedTargets(me, w) ==
    LET target == me.targets[me.idx]
        r == NotifyGetChannelId(target, w)
        others == {s \in SendIds : send[s] # me}
        shared == IF others = {} THEN <<>>
                  ELSE send[CHOOSE s \in others : TRUE].failed_targets
        seen == [me EXCEPT !.log = @ \o Rest(me, r.reqs), !.asked = <<>>,
                           !.resolved = Append(@, [target |-> target,
                                                   channel_id |-> r.id]),
                           !.met = Append(@, MetBy(r.reqs, w))]
    IN  IF NoChannel(r.id)
        THEN [seen EXCEPT !.failed_targets = Append(shared \o @, target),
                          !.idx = @ + 1]
        ELSE [seen EXCEPT !.channel_id = r.id,
                          !.pc = AfterResolve(me.kind)]

\* Variant: the first unresolved target ends the loop (break for continue).
ResolvedStopsAtFailure(me, w) ==
    LET target == me.targets[me.idx]
        r == NotifyGetChannelId(target, w)
        seen == [me EXCEPT !.log = @ \o Rest(me, r.reqs), !.asked = <<>>,
                           !.resolved = Append(@, [target |-> target,
                                                   channel_id |-> r.id]),
                           !.met = Append(@, MetBy(r.reqs, w))]
    IN  IF NoChannel(r.id)
        THEN [seen EXCEPT !.failed_targets = Append(@, target),
                          !.idx = Len(me.targets) + 1]
        ELSE [seen EXCEPT !.channel_id = r.id,
                          !.pc = AfterResolve(me.kind)]

\* The head of the loop body: channel_id = await _async_get_channel_id;
\* an unresolved target is appended to failed_targets and skipped.
Resolved(me, w) ==
    LET target == me.targets[me.idx]
        r == NotifyGetChannelId(target, w)
        seen == [me EXCEPT !.log = @ \o Rest(me, r.reqs), !.asked = <<>>,
                           !.resolved = Append(@, [target |-> target,
                                                   channel_id |-> r.id]),
                           !.met = Append(@, MetBy(r.reqs, w))]
    IN  IF NoChannel(r.id)
        THEN [seen EXCEPT !.failed_targets = Append(@, target),
                          !.idx = @ + 1]
        ELSE [seen EXCEPT !.channel_id = r.id,
                          !.pc = AfterResolve(me.kind)]

Resolve(s) ==
    /\ send[s].pc = "loop"
    /\ send[s].idx <= Len(send[s].targets)
    /\ \E w \in SendWorlds(send[s].targets[send[s].idx]) :
          LET me == send[s]
              reqs == NotifyGetChannelId(me.targets[me.idx], w).reqs
          IN  /\ Agrees(me.asked, reqs)
              /\ send' = [send EXCEPT ![s] =
                     IF Awaits(me, reqs) THEN Asking(me, reqs)
                     ELSE Resolved(me, w)]
    /\ UNCHANGED <<temp_files, setupVars, clientVars>>

\* The client call issued its post or upload request.
Asked(sent) ==
    \E i \in 1..Len(sent.reqs) : sent.reqs[i].kind \in {"post", "upload"}

\* What the awaited client call gave back for the current target, and the
\* answers its lookup and its request met; the code discards the value.
Returned(me, sent, w, status) ==
    [me EXCEPT !.log = @ \o Rest(me, sent.reqs), !.asked = <<>>,
               !.returned =
                   Append(@, [target |-> me.targets[me.idx], ok |-> sent.ok,
                              status |-> IF Asked(sent) THEN status
                                         ELSE NotAsked]),
               !.met[me.idx].cw =
                   Heard(ClientGetChannelId(me.channel_id, w).reqs, w),
               !.met[me.idx].status = IF Asked(sent) THEN status
                                      ELSE NotAsked,
               !.idx = @ + 1, !.pc = "loop"]

\* await self._client.post_message(channel_id, full_message, **post_kwargs)
Posted(me, w, status) ==
    Returned(me,
             ClientPostMessage(me.channel_id, me.full_message,
                               PostKwargs(me.attachments), w, status),
             w, status)

PostText(s) ==
    /\ send[s].pc = "post"
    /\ \E w \in ClientWorlds(send[s].channel_id), status \in SendStatuses :
          LET me == send[s]
              reqs == ClientPostMessage(me.channel_id, me.full_message,
                                        PostKwargs(me.attachments),
                                        w, status).reqs
          IN  /\ Agrees(me.asked, reqs)
              /\ send' = [send EXCEPT ![s] =
                     IF Awaits(me, reqs) THEN Asking(me, reqs)
                     ELSE Posted(me, w, status)]
    /\ UNCHANGED <<temp_files, setupVars, clientVars>>

\* What open() finds at a path of the local disk.
LocalFile(file_path) ==
    [exists |-> IsFile(file_path), name |-> file_path.name,
     bytes |-> BytesAt(file_path)]

\* await self._client.upload_file(channel_id, file_path, full_message)
UploadedLocal(me, w, status) ==
    Returned(me,
             ClientUploadFile(me.channel_id, LocalFile(me.file_path),
                              FileMessage(me.title, me.message), w, status),
             w, status)

UploadLocal(s) ==
    /\ send[s].pc = "upload"
    /\ \E w \in ClientWorlds(send[s].channel_id), status \in SendStatuses :
          LET me == send[s]
              reqs == ClientUploadFile(me.channel_id, LocalFile(me.file_path),
                                       FileMessage(me.title, me.message),
                                       w, status).reqs
          IN  /\ Agrees(me.asked, reqs)
              /\ send' = [send EXCEPT ![s] =
                     IF Awaits(me, reqs) THEN Asking(me, reqs)
                     ELSE UploadedLocal(me, w, status)]
    /\ UNCHANGED <<temp_files, setupVars, clientVars>>

\* tempfile.NamedTemporaryFile(delete=False, suffix=f"_{filename}"): a
\* fresh name ending in _filename.
TempPath(s, n, filename) ==
    Path(<<"tmp">>, <<"tmp", ToString(s), ToString(n), "_">> \o filename)

\* What creating and writing the temporary file can come to: the file is
\* written whole; creating it raises and there is no file (a name longer
\* than the file system takes, a read-only directory); or writing it
\* raises after the file was created (a full disk, a file size limit),
\* and the file stays with the part that was written.
TempOutcomes == {"written", "not_created", "not_written"}

\* The parts of the content a write that raises can leave in the file.
Prefixes(content) ==
    {SubSeq(content, 1, n) : n \in 0..(Len(content) - 1)}

\* except Exception as err: failed_targets.append(target)
TargetRaised(me) ==
    [me EXCEPT !.failed_targets = Append(@, me.targets[me.idx]),
               !.raised_at = @ \cup {me.idx},
               !.idx = @ + 1, !.pc = "loop"]

\* The temporary file of the current target came to outcome.
TempMet(me, outcome) == [me EXCEPT !.met[me.idx].temp = outcome]

MakeTemp(s) ==
    /\ send[s].pc = "mktemp"
    /\ LET me == send[s]
           temp_file_path == TempPath(s, me.temp_made + 1, me.filename)
       IN  \E outcome \in TempOutcomes :
             \/ /\ outcome = "written"
                /\ temp_files' = temp_files \cup
                       {[path |-> temp_file_path, bytes |-> me.file_content]}
                /\ send' = [send EXCEPT ![s] =
                       [TempMet(me, outcome) EXCEPT
                            !.temp_file_path = temp_file_path,
                            !.temp_made = @ + 1,
                            !.pc = "upload_temp"]]
             \/ /\ outcome = "not_created"
                /\ temp_files' = temp_files
                /\ send' = [send EXCEPT ![s] =
                       TargetRaised(TempMet(me, outcome))]
             \/ /\ outcome = "not_written"
                /\ \E part \in Prefixes(me.file_content) :
                      temp_files' = temp_files \cup
                          {[path |-> temp_file_path, bytes |-> part]}
                /\ send' = [send EXCEPT ![s] =
                       [TargetRaised(TempMet(me, outcome)) EXCEPT
                            !.temp_made = @ + 1]]
    /\ UNCHANGED <<setupVars, clientVars>>

\* What open() finds at a path under the temporary directory.
TempFile(files, temp_file_path) ==
    IF \E f \in files : f.path = temp_file_path
    THEN [exists |-> TRUE, name |-> temp_file_path.name,
          bytes |-> (CHOOSE f \in files : f.path = temp_file_path).bytes]
    ELSE [exists |-> FALSE, name |-> temp_file_path.name, bytes |-> <<>>]

UploadedTemp(me, files, w, status) ==
    Returned(me,
             ClientUploadFile(me.channel_id,
                              TempFile(files, me.temp_file_path),
                              FileMessage(me.title, me.message), w, status),
             w, status)

\* finally: os.unlink(temp_file_path), whatever the upload gave back.  An
\* unlink that raises OSError (a file made immutable, a read-only
\* directory) is passed over: the file stays and nothing is recorded.
Unlinked(files, temp_file_path, removed) ==
    IF removed THEN {f \in files : f.path # temp_file_path} ELSE files

UploadTemp(s) ==
    /\ send[s].pc = "upload_temp"
    /\ \E w \in ClientWorlds(send[s].channel_id), status \in SendStatuses,
          removed \in BOOLEAN :
          LET me == send[s]
              reqs == ClientUploadFile(me.channel_id,
                                       TempFile(temp_files, me.temp_file_path),
                                       FileMessage(me.title, me.message),
                                       w, status).reqs
          IN  /\ Agrees(me.asked, reqs)
              /\ IF Awaits(me, reqs)
                 THEN /\ removed
                      /\ send' = [send EXCEPT ![s] = Asking(me, reqs)]
                      /\ temp_files' = temp_files
                 ELSE /\ send' = [send EXCEPT ![s] =
                             UploadedTemp(me, temp_files, w, status)]
                      /\ temp_files' =
                             Unlinked(temp_files, me.temp_file_path, removed)
    /\ UNCHANGED <<setupVars, clientVars>>

\* After the loop: raise once if any target failed, else return.
ErrorPrefix(kind) ==
    IF kind = "text" THEN "Failed to send message to channels: "
    ELSE "Failed to send file to channels: "

Finished(me) ==
    IF me.failed_targets # <<>>
    THEN Raise(me, SendError(ErrorPrefix(me.kind), me.failed_targets))
    ELSE Return(me)

Finish(s) ==
    /\ send[s].pc = "loop"
    /\ send[s].idx > Len(send[s].targets)
    /\ send' = [send EXCEPT ![s] = Finished(send[s])]
    /\ UNCHANGED <<temp_files, setupVars, clientVars>>

\* ----------------------------------- MattermostHTTPClient.test_connection
ProbeReq == [kind |-> "probe", bearer |-> FALSE]
IdentityReq == [kind |-> "identity", bearer |-> TRUE]

\* Variant: the probe is issued but its answer does not gate the identity
\* request (only a probe that raises ends the test).
ProbePassedWhateverStatus(status) == status # Exc

\* The first request: anything but a 200 answer ends the test with False.
ProbePassed(status) == status # Exc /\ status = HTTP_OK

\* Variant: only a 401 answer fails the identity step.
IdentityPassedUnless401(status) == status # Exc /\ status # HTTP_UNAUTHORIZED

\* The second request: True on 200, False on every other answer and when
\* the request raises.
IdentityPassed(status) == status # Exc /\ status = HTTP_OK

\* The warning logged for a principal that is not a bot account.
WarnsNotBot(status, is_bot) == IdentityPassed(status) /\ ~is_bot

\* ------------------------------------------------------ async_setup_entry
\* A configured URL is a sequence of tokens: a scheme ("http://",
\* "https://"), address pieces, "/api/v4", "/".  startswith(p) is a test
\* of the first token, "x in url" a test of any token.
StartsWith(url, prefix) == url # <<>> /\ url[1] = prefix
Contains(url, token) == \E i \in 1..Len(url) : url[i] = token

\* url.split('/api/v4')[0]
RECURSIVE BeforeApi(_)
BeforeApi(url) ==
    IF url = <<>> \/ Head(url) = "/api/v4" THEN <<>>
    ELSE <<Head(url)>> \o BeforeApi(Tail(url))

\* str.rstrip('/'): drop every trailing '/' character, also those that end
\* a longer piece such as "https://".
RECURSIVE RStripSlash(_)
RStripSlash(url) ==
    IF url = <<>> THEN url
    ELSE
      LET front == SubSeq(url, 1, Len(url) - 1)
          last == url[Len(url)]
          n == Len(last)
      IN  IF n = 0 THEN RStripSlash(front)
          ELSE IF SubSeq(last, n, n) # "/" THEN url
          ELSE IF n = 1 THEN RStripSlash(front)
          ELSE RStripSlash(Append(front, SubSeq(last, 1, n - 1)))

\* The URL clean-up of async_setup_entry.
SetupUrl(configured) ==
    LET url == IF Contains(configured, "/api/v4") THEN BeforeApi(configured)
               ELSE configured
    IN  IF StartsWith(url, "http://") \/ StartsWith(url, "https://") THEN url
        ELSE IF \/ StartsWith(url, "192.168.")
                \/ StartsWith(url, "10.")
                \/ StartsWith(url, "127.")
                \/ Contains(url, "localhost")
        THEN <<"http://">> \o url
        ELSE <<"https://">> \o url

\* MattermostHTTPClient(url, token)
NewClient(url, token) == [base_url |-> RStripSlash(url), token |-> token]

NoClient == [base_url |-> <<>>, token |-> ""]

\* entry[e]: the configured URL, where the call in flight stands (pc =
\* "idle": none), the client under test, the requests of the current or
\* last activation, what test_connection gave back, and how the last
\* completed call for the entry ended.
NewEntry(url) ==
    [url |-> url, pc |-> "idle", client |-> NoClient, reqs |-> <<>>,
     probe |-> NotAsked, identity |-> NotAsked, is_bot |-> FALSE,
     tested |-> FALSE, connected |-> FALSE, warned |-> FALSE,
     last |-> "none"]

\* Variant: a failed connection test is only logged and setup goes on to
\* load the platform.
NotReadyLoadsPlatform(en) == [en EXCEPT !.pc = "platform"]

\* raise ConfigEntryNotReady
NotReady(en) == [en EXCEPT !.pc = "idle", !.last = "not_ready"]

SetupEntry(e) ==
    /\ entry[e].pc = "idle"
    /\ entry' = [entry EXCEPT ![e] =
           [@ EXCEPT !.pc = "probe",
                     !.client = NewClient(SetupUrl(entry[e].url), "token"),
                     !.reqs = <<>>, !.probe = NotAsked,
                     !.identity = NotAsked,
                     !.is_bot = FALSE, !.tested = FALSE,
                     !.connected = FALSE, !.warned = FALSE]]
    /\ UNCHANGED <<hass_data, platforms, sendVars, clientVars>>

ProbeStatuses == {HTTP_OK, 503, Exc}
IdentityStatuses ==
    {HTTP_OK, HTTP_UNAUTHORIZED, HTTP_FORBIDDEN, 500, Exc}

Probed(en, status) ==
    LET asked == [en EXCEPT !.reqs = Append(@, ProbeReq), !.probe = status]
    IN  IF ProbePassed(status) THEN [asked EXCEPT !.pc = "identity"]
        ELSE NotReady([asked EXCEPT !.tested = TRUE, !.connected = FALSE])

Probe(e) ==
    /\ entry[e].pc = "probe"
    /\ \E status \in ProbeStatuses :
          entry' = [entry EXCEPT ![e] = Probed(entry[e], status)]
    /\ UNCHANGED <<hass_data, platforms, sendVars, clientVars>>

Identified(en, status, is_bot) ==
    LET asked == [en EXCEPT !.reqs = Append(@, IdentityReq),
                            !.identity = status,
                            !.is_bot = (IdentityPassed(status) /\ is_bot),
                            !.tested = TRUE,
                            !.connected = IdentityPassed(status),
                            !.warned = WarnsNotBot(status, is_bot)]
    IN  IF asked.connected THEN [asked EXCEPT !.pc = "platform"]
        ELSE NotReady(asked)

DOMAIN_KEY == "mattermost"

\* hass.data.setdefault(DOMAIN, {}); hass.data[DOMAIN][entry_id] = {...}
Stored(data, e, en) ==
    LET stored == Get(data, DOMAIN_KEY, EmptyDict)
        value == [client |-> en.client, mattermost_hass_config |-> en.url]
    IN  [k \in {DOMAIN_KEY} |->
            [i \in DOMAIN stored \cup {e} |->
                IF i = e THEN value ELSE stored[i]]]

Identity(e) ==
    /\ entry[e].pc = "identity"
    /\ \E status \in IdentityStatuses, is_bot \in BOOLEAN :
          LET en == Identified(entry[e], status, is_bot)
          IN  /\ entry' = [entry EXCEPT ![e] = en]
              /\ hass_data' = IF en.connected
                              THEN Stored(hass_data, e, en) ELSE hass_data
    /\ UNCHANGED <<platforms, sendVars, clientVars>>

\* await discovery.async_load_platform(...): the platform is loaded and the
\* call goes on to wait in asyncio.sleep(1), still in flight.
LoadPlatform(e) ==
    /\ entry[e].pc = "platform"
    /\ platforms' = platforms \cup {e}
    /\ entry' = [entry EXCEPT ![e] = [@ EXCEPT !.pc = "sleep"]]
    /\ UNCHANGED <<hass_data, sendVars, clientVars>>

\* The sleep is over: the services are listed for the log; return True.
SetupReturns(e) ==
    /\ entry[e].pc = "sleep"
    /\ entry' = [entry EXCEPT ![e] = [@ EXCEPT !.pc = "idle",
                                               !.last = "setup_ok"]]
    /\ UNCHANGED <<hass_data, platforms, sendVars, clientVars>>

\* Variant: unloading an entry drops the data of every entry.
PoppedAll(data, e) ==
    IF DOMAIN_KEY \in DOMAIN data /\ e \in DOMAIN data[DOMAIN_KEY]
    THEN [k \in {DOMAIN_KEY} |-> EmptyDict]
    ELSE data

\* ----------------------------------------------------- async_unload_entry
Popped(data, e) ==
    IF DOMAIN_KEY \in DOMAIN data /\ e \in DOMAIN data[DOMAIN_KEY]
    THEN [k \in {DOMAIN_KEY} |->
            [i \in DOMAIN data[DOMAIN_KEY] \ {e} |-> data[DOMAIN_KEY][i]]]
    ELSE data

UnloadEntry(e) ==
    /\ entry[e].pc = "idle"
    /\ hass_data' = Popped(hass_data, e)
    /\ entry' = [entry EXCEPT ![e] = [@ EXCEPT !.last = "unloaded"]]
    /\ UNCHANGED <<platforms, sendVars, clientVars>>

\* ------------------------------------------------------------- the inputs
APlain == [text |-> <<"hi">>]
AHalf == [author_name |-> <<"me">>, color |-> <<"red">>]
AFull == [author_name |-> <<"me">>, author_icon |-> <<"ic">>]
ABogus == [bogus |-> <<"x">>]

\* The data dicts of a send request; the last three fail DATA_SCHEMA.
DataValues ==
    { EmptyDict,
      [attachments |-> <<>>],
      [attachments |-> <<APlain, AHalf>>],
      [attachments |-> <<AFull>>],
      [file |-> [path |-> PathOk]],
      [file |-> [path |-> PathGone]],
      [file |-> [path |-> PathSecret]],
      [file |-> [url |-> UrlOk]],
      [file |-> [url |-> UrlOk, username |-> <<"u">>, password |-> <<"p">>]],
      [file |-> [url |-> UrlEvil]],
      [attachments |-> <<ABogus>>],
      [file |-> [path |-> PathOk], attachments |-> <<APlain>>],
      [file |-> [url |-> UrlOk, username |-> <<"u">>]] }

Titles == {<<>>, <<"Alert">>}
Messages == {<<>>, <<"Door open">>}

\* Channel references: two names (one written with '#') and a channel ID.
TargetNames == {<<"#", "g">>, <<"h">>, <<"#">> \o IdB}

TargetLists == UNION {[1..n -> TargetNames] : n \in 0..MaxTargets}

\* The data names a remote file behind a user name and a password.
WithCredentials(data) ==
    /\ "file" \in DOMAIN data
    /\ "password" \in DOMAIN data["file"]

\* The data names a remote file.
WithUrl(data) ==
    /\ "file" \in DOMAIN data
    /\ "url" \in DOMAIN data["file"]

\* The send requests: every message, title and data with every target
\* list (a file behind credentials with the lists of at most one target,
\* a remote file for several targets with a title and a message), and
\* with no target given.
Requests ==
    {r \in {NewSend("start", message, title, TRUE, target, data) :
                message \in Messages, title \in Titles,
                target \in TargetLists, data \in DataValues} :
        /\ WithCredentials(r.data) => Len(r.target) <= 1
        /\ (WithUrl(r.data) /\ Len(r.target) > 1) =>
              r.message # <<>> /\ r.title # <<>>}
    \cup
    {NewSend("start", message, title, FALSE, <<>>, data) :
        message \in Messages, title \in Titles, data \in DataValues}

\* Configured server URLs.
ConfigUrls ==
    { <<"https://", "chat.example.com">>,
      <<"http://", "chat.example.com", "/">>,
      <<"chat.example.com", "/api/v4", "/">>,
      <<"192.168.", "1.5", ":8065">>,
      <<"172.16.", "0.9">>,
      <<"localhost", ":8065">>,
      <<"my-", "localhost", ".example.com">>,
      <<"/api/v4">> }

\* ------------------------------- the client operations, one call at a time
MaxTeams == 2          \* most teams a team list answers with

\* test_connection as a whole: the probe, and the identity request only
\* after a probe that passed.
ClientTestConnection(probe, identity) ==
    IF ~ProbePassed(probe) THEN Sent(FALSE, <<ProbeReq>>)
    ELSE Sent(IdentityPassed(identity), <<ProbeReq, IdentityReq>>)

\* call: one call of a client operation (or of the dispatcher's resolver)
\* with its arguments and the answers it will meet, and once it is done
\* what it gave back: ok for the boolean operations, id for the lookups,
\* and the requests it issued.
NewCall(op, channel, w, status, file, probe, identity) ==
    [pc |-> "start", op |-> op, channel |-> channel, w |-> w,
     status |-> status, file |-> file, probe |-> probe,
     identity |-> identity, ok |-> FALSE, id |-> None, reqs |-> <<>>]

NoFile == [exists |-> FALSE, name |-> <<>>, bytes |-> <<>>]

NoCall ==
    [NewCall("none", <<>>, World(HTTP_OK, <<>>), NotAsked, NoFile,
             NotAsked, NotAsked) EXCEPT !.pc = "idle"]

\* Channel references: names written with no, one and two '#', a channel
\* ID bare and with '#', and two strings that miss the shape of an ID, one
\* by a character that is not alphanumeric and one by its length.
DashedRef == [i \in 1..ChannelIdLen |-> IF i = 5 THEN "-" ELSE "a"]
LongRef == [i \in 1..(ChannelIdLen + 1) |-> "a"]

\* 26 letters and digits, four of them beyond ASCII, and the same with an
\* em dash among them and with a multiplication sign among them.
WideRef ==
    [i \in 1..ChannelIdLen |->
        IF i = 3 THEN "^L00E9" ELSE IF i = 4 THEN "^N00B2"
        ELSE IF i = 5 THEN "^L0151" ELSE IF i = 6 THEN "^N0663" ELSE "a"]
WideDashedRef == [WideRef EXCEPT ![9] = "^O2014"]
TimesRef == [WideRef EXCEPT ![9] = "^O00D7"]

LookupRefs ==
    { <<"g">>, <<"#", "g">>, <<"#", "#", "g">>, IdB, <<"#">> \o IdB,
      DashedRef, LongRef, WideRef, WideDashedRef, TimesRef }

\* The channel lists a team can answer with: none, one whose display name
\* is "#g", one whose second display name is "g", and one whose first
\* channel named "g" has a null id and whose second has an ID.
ChannelLists ==
    { <<>>,
      <<Channel(<<"#", "g">>, IdB)>>,
      <<Channel(<<"other">>, IdA), Channel(<<"g">>, ShortId)>>,
      <<Channel(<<"g">>, None), Channel(<<"#", "g">>, IdB)>> }

\* The answers of one team: the slug lookup hits (200, with an ID or with
\* an empty id), misses (404), fails (500) or raises, and the channel list
\* answers 200 with one of the lists, fails (500) or raises.
TeamAnswers ==
    {[slugStatus |-> HTTP_OK, slugId |-> IdA, chStatus |-> HTTP_OK,
      channels |-> c] : c \in {<<>>, <<Channel(<<"#", "g">>, IdB)>>}}
    \cup
    {[slugStatus |-> HTTP_OK, slugId |-> <<>>, chStatus |-> HTTP_OK,
      channels |-> <<Channel(<<"#", "g">>, IdB)>>]}
    \cup
    {[slugStatus |-> Exc, slugId |-> None, chStatus |-> HTTP_OK,
      channels |-> <<>>]}
    \cup
    {[slugStatus |-> s, slugId |-> None, chStatus |-> HTTP_OK,
      channels |-> c] : s \in {404, 500}, c \in ChannelLists}
    \cup
    {[slugStatus |-> s, slugId |-> None, chStatus |-> x,
      channels |-> <<>>] : s \in {404, 500}, x \in {500, Exc}}

TeamIdAt == <<"t1", "t2", "t3", "t4">>

TeamLists ==
    UNION { {[i \in 1..n |->
                Team(TeamIdAt[i], a[i].slugStatus, a[i].slugId,
                     a[i].chStatus, a[i].channels)] :
                a \in [1..n -> TeamAnswers]} : n \in 0..MaxTeams }

\* What the server can answer during one lookup.
LookupWorlds ==
    {World(HTTP_OK, teams) : teams \in TeamLists}
    \cup {World(500, <<>>), World(Exc, <<>>)}

\* The answers of the post and upload endpoints to a call on its own.
CallStatuses == SendStatuses \cup {500}

CallFiles ==
    {NoFile, [exists |-> TRUE, name |-> <<"a.png">>, bytes |-> <<"png">>]}

Calls ==
    {NewCall(op, channel, w, NotAsked, NoFile, NotAsked, NotAsked) :
        op \in {"_get_channel_id", "_async_get_channel_id"},
        channel \in LookupRefs, w \in LookupWorlds}
    \cup
    {NewCall("post_message", channel, w, status, NoFile, NotAsked, NotAsked) :
        channel \in {IdB, ShortId}, status \in CallStatuses,
        w \in ClientWorlds(ShortId) \cup {World(Exc, <<>>)}}
    \cup
    {NewCall("upload_file", channel, w, status, file, NotAsked, NotAsked) :
        channel \in {IdB, ShortId}, status \in CallStatuses,
        file \in CallFiles,
        w \in ClientWorlds(ShortId) \cup {World(Exc, <<>>)}}
    \cup
    {NewCall("test_connection", <<>>, World(HTTP_OK, <<>>), NotAsked, NoFile,
             probe, identity) :
        probe \in ProbeStatuses, identity \in IdentityStatuses}

\* A call runs from one request to the next: a step issues the next
\* request of the call and takes its answer, and the step of the last
\* request (or of a call that issues none) runs on to the return.
CallAwaits(r) == Len(call.reqs) + 1 < Len(r.reqs)

CallAsking(r) ==
    [call EXCEPT !.pc = "awaiting",
                 !.reqs = Append(@, r.reqs[Len(call.reqs) + 1])]

CallRunning(op) == call.pc \in {"start", "awaiting"} /\ call.op = op

GetChannelId ==
    /\ CallRunning("_get_channel_id")
    /\ LET r == ClientGetChannelId(call.channel, call.w)
       IN  call' = IF CallAwaits(r) THEN CallAsking(r)
                   ELSE [call EXCEPT !.pc = "done", !.id = r.id,
                                     !.reqs = r.reqs]
    /\ UNCHANGED <<sendVars, setupVars>>

AsyncGetChannelId ==
    /\ CallRunning("_async_get_channel_id")
    /\ LET r == NotifyGetChannelId(call.channel, call.w)
       IN  call' = IF CallAwaits(r) THEN CallAsking(r)
                   ELSE [call EXCEPT !.pc = "done", !.id = r.id,
                                     !.reqs = r.reqs]
    /\ UNCHANGED <<sendVars, setupVars>>

PostMessage ==
    /\ CallRunning("post_message")
    /\ LET r == ClientPostMessage(call.channel, <<"hi">>, EmptyDict,
                                  call.w, call.status)
       IN  call' = IF CallAwaits(r) THEN CallAsking(r)
                   ELSE [call EXCEPT !.pc = "done", !.ok = r.ok,
                                     !.reqs = r.reqs]
    /\ UNCHANGED <<sendVars, setupVars>>

UploadFile ==
    /\ CallRunning("upload_file")
    /\ LET r == ClientUploadFile(call.channel, call.file, <<>>,
                                 call.w, call.status)
       IN  call' = IF CallAwaits(r) THEN CallAsking(r)
                   ELSE [call EXCEPT !.pc = "done", !.ok = r.ok,
                                     !.reqs = r.reqs]
    /\ UNCHANGED <<sendVars, setupVars>>

TestConnection ==
    /\ CallRunning("test_connection")
    /\ LET r == ClientTestConnection(call.probe, call.identity)
       IN  call' = IF CallAwaits(r) THEN CallAsking(r)
                   ELSE [call EXCEPT !.pc = "done", !.ok = r.ok,
                                     !.reqs = r.reqs]
    /\ UNCHANGED <<sendVars, setupVars>>

\* ------------------------------------------------------ the specifications
SendNext ==
    \E s \in SendIds :
        \/ AsyncSendMessage(s)
        \/ Download(s)
        \/ Resolve(s)
        \/ PostText(s)
        \/ UploadLocal(s)
        \/ MakeTemp(s)
        \/ UploadTemp(s)
        \/ Finish(s)

SetupNext ==
    \E e \in EntryIds :
        \/ SetupEntry(e)
        \/ Probe(e)
        \/ Identity(e)
        \/ LoadPlatform(e)
        \/ SetupReturns(e)
        \/ UnloadEntry(e)

\* One send request, from its arrival to its end.
Init ==
    /\ \E r \in Requests : send = [s \in SendIds |-> IF s = 1 THEN r ELSE IdleSend]
    /\ temp_files = {}
    /\ entry = [e \in EntryIds |-> NewEntry(<<"https://", "chat.example.com">>)]
    /\ hass_data = EmptyDict
    /\ platforms = {}
    /\ call = NoCall

Next == SendNext

Spec == Init /\ [][Next]_vars

\* Setup and unload calls of the config entries, in any order.
InitSetup ==
    /\ send = [s \in SendIds |-> IdleSend]
    /\ temp_files = {}
    /\ entry \in [EntryIds -> {NewEntry(u) : u \in ConfigUrls}]
    /\ hass_data = EmptyDict
    /\ platforms = {}
    /\ call = NoCall

SpecSetup == InitSetup /\ [][SetupNext]_vars

\* Two send requests in flight at once.  The two name different channels
\* and carry different texts, so that whatever one send leaves in the
\* other shows.
ConcFirst ==
    { NewSend("start", <<"Door open">>, <<"Alert">>, TRUE,
              <<<<"#", "g">>, <<"h">>>>, EmptyDict),
      NewSend("start", <<"Door open">>, <<>>, TRUE,
              <<<<"#", "g">>>>, [file |-> [url |-> UrlOk]]) }

ConcSecond ==
    { NewSend("start", <<"Window open">>, <<>>, TRUE,
              <<<<"x">>, <<"#", "y">>>>, [attachments |-> <<APlain>>]),
      NewSend("start", <<"Window open">>, <<>>, TRUE,
              <<<<"x">>>>, [file |-> [path |-> PathOk]]),
      NewSend("start", <<"Window open">>, <<"Alert">>, TRUE,
              <<<<"#", "y">>>>, [file |-> [url |-> UrlOk]]) }

InitConc ==
    /\ \E r1 \in ConcFirst, r2 \in ConcSecond :
          send = [s \in SendIds |-> IF s = 1 THEN r1 ELSE r2]
    /\ temp_files = {}
    /\ entry = [e \in EntryIds |-> NewEntry(<<"https://", "chat.example.com">>)]
    /\ hass_data = EmptyDict
    /\ platforms = {}
    /\ call = NoCall

\* The steps of the two sends interleave at every request of every call.
SpecConc == InitConc /\ [][SendNext]_vars

\* One call of a client operation, from its arguments to its result.
ClientNext ==
    \/ GetChannelId
    \/ AsyncGetChannelId
    \/ PostMessage
    \/ UploadFile
    \/ TestConnection

InitClient ==
    /\ send = [s \in SendIds |-> IdleSend]
    /\ temp_files = {}
    /\ entry = [e \in EntryIds |-> NewEntry(<<"https://", "chat.example.com">>)]
    /\ hass_data = EmptyDict
    /\ platforms = {}
    /\ call \in Calls

SpecClient == InitClient /\ [][ClientNext]_vars

\* ------------------------------------------------------------- the claims
\* Helpers of the formulas below.
Done(s) == send[s].pc = "done"

\* The send went past its checks and its download into the target loop.
LoopEntered(me) ==
    \/ me.kind \in {"text", "local"}
    \/ me.kind = "remote" /\ me.file_content # <<>>

\* The targets of me whose resolution gave no channel, in list order.
RECURSIVE Unresolved(_)
Unresolved(resolved) ==
    IF resolved = <<>> THEN <<>>
    ELSE IF NoChannel(Head(resolved).channel_id)
         THEN <<Head(resolved).target>> \o Unresolved(Tail(resolved))
         ELSE Unresolved(Tail(resolved))

\* The targets of me whose attempt failed before any request for them: the
\* resolution gave no channel or the loop body raised; in list order.
RECURSIVE FailedUpTo(_, _)
FailedUpTo(me, n) ==
    IF n = 0 THEN <<>>
    ELSE FailedUpTo(me, n - 1) \o
         (IF NoChannel(me.resolved[n].channel_id) \/ n \in me.raised_at
          THEN <<me.resolved[n].target>> ELSE <<>>)

FailedAttempts(me) == FailedUpTo(me, Len(me.resolved))

Named(names, target) == \E j \in 1..Len(names) : names[j] = target

\* C1 (as claimed): when a text send has ended, every target whose post
\* came back failed (a status other than 201, or the request raised) is in
\* failed_targets and the send raised; and a send that ended without an
\* error resolved every target and had every post succeed.
C1_FailedPostIsReported ==
    \A s \in SendIds :
        LET me == send[s]
        IN  (Done(s) /\ me.kind = "text") =>
              /\ \A i \in 1..Len(me.returned) :
                    me.returned[i].status \notin {NotAsked, HTTP_CREATED} =>
                        me.raised /\ Named(me.failed_targets, me.returned[i].target)
              /\ ~me.raised =>
                    /\ Len(me.returned) = Len(me.targets)
                    /\ \A i \in 1..Len(me.returned) : me.returned[i].ok

\* C2: a send that entered its target loop raises only once it has ended,
\* it ends only after attempting every target of the list in order, every
\* target whose resolution failed is in failed_targets, it raises exactly
\* when some attempt failed, and its error is the prefix followed by the
\* names of exactly the targets whose attempt failed (the unresolved ones
\* and those whose loop body raised), in order.
C2_ResolutionFailuresAggregate ==
    \A s \in SendIds :
        LET me == send[s]
        IN  LoopEntered(me) =>
              /\ me.raised => Done(s)
              /\ me.failed_targets = FailedAttempts(me)
              /\ \A i \in 1..Len(me.resolved) :
                    NoChannel(me.resolved[i].channel_id) =>
                        Named(me.failed_targets, me.resolved[i].target)
              /\ Done(s) =>
                    /\ Len(me.resolved) = Len(me.targets)
                    /\ \A i \in 1..Len(me.targets) :
                          me.resolved[i].target = me.targets[i]
                    /\ me.raised <=> FailedAttempts(me) # <<>>
                    /\ me.raised =>
                          me.error = <<ErrorPrefix(me.kind)>>
                                       \o Join(FailedAttempts(me), <<", ">>)

\* C2 witness: a send of two targets has ended with an error although the
\* second target was resolved and posted after the first one failed.
C2_Witness ==
    \E s \in SendIds :
        LET me == send[s]
        IN  /\ Done(s) /\ me.raised /\ Len(me.targets) = 2
            /\ Len(me.resolved) = 2
            /\ NoChannel(me.resolved[1].channel_id)
            /\ ~NoChannel(me.resolved[2].channel_id)
            /\ Len(me.returned) = 1 /\ me.returned[1].ok
            /\ me.failed_targets = <<me.targets[1]>>

\* The request names a file that host policy rejects.
PolicyRejects(me) ==
    /\ DataSchemaOk(me.data)
    /\ "file" \in DOMAIN me.data
    /\ LET f == me.data["file"]
       IN  IF "path" \in DOMAIN f
           THEN f["path"].dir \notin AllowlistExternalDirs
                   \/ f["path"] \notin LocalFiles
           ELSE f["url"].host \notin AllowlistExternalUrls

\* C3: a file send that host policy rejects issues no request, attempts no
\* target and creates no temporary file, and it ends with an error.
C3_RejectedFileSendIsSilentOnTheWire ==
    \A s \in SendIds :
        LET me == send[s]
        IN  (me.pc # "idle" /\ PolicyRejects(me)) =>
              /\ me.log = <<>> /\ me.resolved = <<>> /\ me.temp_made = 0
              /\ me.pc \in {"start", "done"}
              /\ Done(s) => me.raised /\ me.error # <<>>

\* C3 witness: a rejected file send to two targets has ended.
C3_Witness ==
    \E s \in SendIds :
        /\ Done(s) /\ PolicyRejects(send[s]) /\ send[s].raised
        /\ Len(send[s].targets) = 2

\* The name of the file a file send carries.
OwnName(me) == IF me.kind = "local" THEN me.file_path.name ELSE me.filename

\* C4 (as claimed): every upload of a file send carries the file's own
\* name, and by the end of the send it is followed by a post to the same
\* channel carrying the rendered text.
C4_UploadThenPost ==
    \A s \in SendIds :
        LET me == send[s]
        IN  \A i \in 1..Len(me.log) :
              me.log[i].kind = "upload" =>
                /\ me.log[i].filename = OwnName(me)
                /\ Done(s) =>
                     \E j \in (i + 1)..Len(me.log) :
                        /\ me.log[j].kind = "post"
                        /\ me.log[j].json.channel_id = me.log[i].channel_id

\* C5 (as claimed): a send that had something to send and whose target
\* list was empty or absent has, when it ends, attempted exactly one
\* target, the configured default channel.
C5_EmptyOrAbsentTargetsDefault ==
    \A s \in SendIds :
        LET me == send[s]
        IN  (Done(s) /\ LoopEntered(me)
               /\ (~me.has_target \/ me.target = <<>>)) =>
              /\ Len(me.resolved) = 1
              /\ me.resolved[1].target = LStripHash(DefaultChannel)

\* C6 (as claimed): every temporary file on disk belongs to a send that
\* is about to upload it, so a send that has ended left none behind; and a
\* send whose download failed never created one.
C6_NoTempFileLeftBehind ==
    /\ \A f \in temp_files :
          \E s \in SendIds :
             send[s].pc = "upload_temp" /\ send[s].temp_file_path = f.path
    /\ \A s \in SendIds :
          (send[s].kind = "remote" /\ ~LoopEntered(send[s])) =>
              send[s].temp_made = 0

\* The text the claim gives for a title and a body, the title-only case
\* being a parameter.
ClaimedText(title, message, title_only) ==
    CASE title # <<>> /\ message # <<>> ->
             <<"**">> \o title \o <<"**", "\n\n">> \o message
      [] title # <<>> /\ message = <<>> -> title_only
      [] title = <<>> /\ message # <<>> -> message
      [] OTHER -> <<>>

PostsCarry(me, title_only) ==
    \A i \in 1..Len(me.log) :
        me.log[i].kind = "post" =>
          /\ me.log[i].json.message =
                 ClaimedText(me.title, me.message, title_only)
          /\ (me.title = <<>> /\ me.message = <<>>) =>
                /\ "props" \in DOMAIN me.log[i].json
                /\ Len(me.log[i].json.props.attachments) =
                       Len(me.data["attachments"])
                /\ Len(me.data["attachments"]) > 0

\* C7 (as claimed): with only a title, the posted text is the title alone.
C7_TitleAlone ==
    \A s \in SendIds : PostsCarry(send[s], send[s].title)

\* C7 (amended): the text of every post is **title**\n\nbody when both
\* are present, **title** when only the title is, the body when only the
\* body is, and empty, with the attachments in props, when neither is.
C7_RenderedText ==
    \A s \in SendIds :
        PostsCarry(send[s], <<"**">> \o send[s].title \o <<"**">>)

\* C7 witness: a post of a send that has a title and no body.
C7_Witness ==
    \E s \in SendIds :
        /\ send[s].title # <<>> /\ send[s].message = <<>>
        /\ \E i \in 1..Len(send[s].log) : send[s].log[i].kind = "post"

\* The request has no title, no message, no attachment and no file.
NothingToSend(me) ==
    /\ me.title = <<>> /\ me.message = <<>>
    /\ "file" \notin DOMAIN me.data
    /\ Get(me.data, "attachments", <<>>) = <<>>

\* C8: a request with nothing to send issues no request, attempts and
\* fails no target, and ends without an error.
C8_NothingToSendIsSilent ==
    \A s \in SendIds :
        LET me == send[s]
        IN  (me.pc # "idle" /\ NothingToSend(me)) =>
              /\ me.log = <<>> /\ me.resolved = <<>>
              /\ me.failed_targets = <<>> /\ ~me.raised
              /\ me.pc \in {"start", "done"}

\* C8 witness: such a request to two targets has ended.
C8_Witness ==
    \E s \in SendIds :
        /\ Done(s) /\ NothingToSend(send[s])
        /\ send[s].has_target /\ Len(send[s].target) = 2

\* C9: in every post of a text send with attachments, the i-th posted
\* attachment has the keys of the i-th given one plus author_name and
\* author_icon, every given value unchanged, and the default value under
\* each author key that was not given.
C9_AuthorDefaults ==
    \A s \in SendIds :
        LET me == send[s]
        IN  \A i \in 1..Len(me.log) :
              (me.log[i].kind = "post" /\ "props" \in DOMAIN me.log[i].json) =>
                LET given == me.data["attachments"]
                    posted == me.log[i].json.props.attachments
                IN  /\ Len(posted) = Len(given)
                    /\ \A n \in 1..Len(given) :
                          /\ DOMAIN posted[n] =
                               DOMAIN given[n] \cup {"author_name", "author_icon"}
                          /\ \A k \in DOMAIN given[n] : posted[n][k] = given[n][k]
                          /\ "author_name" \notin DOMAIN given[n] =>
                               posted[n]["author_name"] = <<"Home Assistant">>
                          /\ "author_icon" \notin DOMAIN given[n] =>
                               posted[n]["author_icon"] = DefaultAuthorIcon

\* C9 witness: a post whose given attachments include one with its own
\* author_name and no author_icon, and one with neither.
C9_Witness ==
    \E s \in SendIds :
        /\ \E i \in 1..Len(send[s].log) :
              /\ send[s].log[i].kind = "post"
              /\ "props" \in DOMAIN send[s].log[i].json
        /\ send[s].data = [attachments |-> <<APlain, AHalf>>]

\* C10 (as claimed): the check succeeds exactly when the probe answered
\* 200 and the identity request answered anything but 401.
C10_OnlyUnauthorizedFails ==
    \A e \in EntryIds :
        entry[e].tested =>
            (entry[e].connected <=>
                /\ entry[e].probe = HTTP_OK
                /\ entry[e].identity \notin {HTTP_UNAUTHORIZED, Exc})

\* C10 (amended): the check succeeds exactly when the probe answered 200
\* and the identity request answered 200; the not-a-bot warning is logged
\* only by a check that succeeds, and is_bot never decides the result.
C10_ConnectedIffBothOk ==
    \A e \in EntryIds :
        entry[e].tested =>
            /\ entry[e].connected <=>
                  (entry[e].probe = HTTP_OK /\ entry[e].identity = HTTP_OK)
            /\ entry[e].warned <=> (entry[e].connected /\ ~entry[e].is_bot)

\* C10 witness: one check failed on a 403 identity answer, another
\* succeeded with a warning for a principal that is not a bot.
C10_Witness ==
    \E e, f \in EntryIds :
        /\ entry[e].tested /\ entry[e].identity = HTTP_FORBIDDEN
        /\ ~entry[e].connected
        /\ entry[f].tested /\ entry[f].connected /\ entry[f].warned

\* What hass.data[DOMAIN] holds under entry e: a set of no or one value.
StoredUnder(data, e) ==
    IF DOMAIN_KEY \in DOMAIN data
    THEN {data[DOMAIN_KEY][i] : i \in DOMAIN data[DOMAIN_KEY] \cap {e}}
    ELSE {}

\* How often request r was issued in reqs.
Times(reqs, r) == Cardinality({i \in 1..Len(reqs) : reqs[i] = r})

\* The step in which the connection test of e's activation fails.
FailsActivation(e) ==
    /\ entry[e].pc \in {"probe", "identity"}
    /\ entry'[e].tested /\ ~entry'[e].connected

\* C11: an activation whose connection test fails, at the probe or at the
\* identity request, ends with ConfigEntryNotReady; from its start to its
\* failure no step changes what hass.data holds under the entry or whether
\* the entry's notify platform is loaded; and an activation issues the
\* probe and the identity request at most once each.
C11_FailedActivationLeavesNoTrace ==
    [][\A e \in EntryIds :
          /\ FailsActivation(e) =>
                entry'[e].pc = "idle" /\ entry'[e].last = "not_ready"
          /\ (entry'[e].pc \in {"probe", "identity"} \/ FailsActivation(e)) =>
                /\ StoredUnder(hass_data', e) = StoredUnder(hass_data, e)
                /\ (e \in platforms') <=> (e \in platforms)
          /\ Times(entry'[e].reqs, ProbeReq) <= 1
          /\ Times(entry'[e].reqs, IdentityReq) <= 1]_vars

\* C11 witness: one activation failed at the probe, another at the
\* identity request, and neither entry is in hass.data or has a platform.
C11_Witness ==
    \E e, f \in EntryIds :
        /\ entry[e].last = "not_ready" /\ entry[e].pc = "idle"
        /\ entry[e].probe = Exc /\ entry[e].reqs = <<ProbeReq>>
        /\ entry[f].last = "not_ready" /\ entry[f].pc = "idle"
        /\ entry[f].identity = 500
        /\ entry[f].reqs = <<ProbeReq, IdentityReq>>
        /\ StoredUnder(hass_data, e) = {} /\ StoredUnder(hass_data, f) = {}
        /\ platforms = {}

\* The scheme of a URL, and whether a configured URL carries one.
HasScheme(url) == StartsWith(url, "http://") \/ StartsWith(url, "https://")

\* An address in a private range (10/8, 172.16/12, 192.168/16) or a
\* loopback address (127/8, localhost).
IsPrivateOrLoopback(url) ==
    \E prefix \in {"10.", "172.16.", "192.168.", "127.", "localhost"} :
        StartsWith(url, prefix)

\* C12: the client of an activation is built on the configured URL with
\* its own scheme when it carries one, and otherwise on http:// for a
\* private or loopback address and on https:// for every other address.
C12_SchemeFollowsAddressShape ==
    \A e \in EntryIds :
        entry[e].client # NoClient =>
            LET url == entry[e].url
                base_url == entry[e].client.base_url
            IN  IF HasScheme(url) THEN base_url[1] = url[1]
                ELSE IF IsPrivateOrLoopback(url)
                     THEN base_url = <<"http://">> \o RStripSlash(BeforeApi(url))
                     ELSE base_url = <<"https://">> \o RStripSlash(BeforeApi(url))

\* The same send run alone.  Its request is what the caller passed, and
\* the answers are those the send met (met): per target the server's
\* answers to the resolver's lookup, what became of the temporary file,
\* and the server's answers to the client call.  Nothing below reads what
\* the send itself computed from them.
RequestOf(me) ==
    NewSend("start", me.message, me.title, me.has_target, me.target, me.data)

\* The locals of the send alone when it enters the target loop.
AloneLocals(me) ==
    LET checked == Dispatch(RequestOf(me))
    IN  IF checked.pc = "download" THEN Downloaded(checked, TRUE)
        ELSE checked

AloneLookup(me, i) ==
    NotifyGetChannelId(AloneLocals(me).targets[i], me.met[i].w)

\* Alone, target i fails when its lookup gives no channel or its
\* temporary file cannot be created or written.
AloneFails(me, i) ==
    \/ NoChannel(AloneLookup(me, i).id)
    \/ me.met[i].temp \in {"not_created", "not_written"}

RECURSIVE AloneFailedUpTo(_, _)
AloneFailedUpTo(me, n) ==
    IF n = 0 THEN <<>>
    ELSE AloneFailedUpTo(me, n - 1) \o
         (IF AloneFails(me, n) THEN <<AloneLocals(me).targets[n]>> ELSE <<>>)

AloneFailedTargets(me) == AloneFailedUpTo(me, Len(me.met))
AloneRaised(me) == AloneFailedTargets(me) # <<>>
AloneError(me) ==
    IF AloneRaised(me)
    THEN SendError(ErrorPrefix(AloneLocals(me).kind), AloneFailedTargets(me))
    ELSE <<>>

\* The temporary files send s alone has made before target i.
AloneTempsBefore(me, i) ==
    Cardinality({j \in 1..(i - 1) :
                    me.met[j].temp \in {"written", "not_written"}})

\* The client call send s alone makes for target i.
AloneCall(s, me, i) ==
    LET a == AloneLocals(me)
        id == AloneLookup(me, i).id
        m == me.met[i]
    IN  IF a.kind = "text"
        THEN ClientPostMessage(id, a.full_message, PostKwargs(a.attachments),
                               m.cw, m.status)
        ELSE IF a.kind = "local"
        THEN ClientUploadFile(id, LocalFile(a.file_path),
                              FileMessage(a.title, a.message), m.cw, m.status)
        ELSE ClientUploadFile(id,
                 [exists |-> TRUE,
                  name |-> TempPath(s, AloneTempsBefore(me, i) + 1,
                                    a.filename).name,
                  bytes |-> a.file_content],
                 FileMessage(a.title, a.message), m.cw, m.status)

\* The requests send s alone issues for its first n targets.
RECURSIVE AloneRequestsUpTo(_, _, _)
AloneRequestsUpTo(s, me, n) ==
    IF n = 0
    THEN IF AloneLocals(me).kind = "remote"
         THEN <<DownloadReq(AloneLocals(me).url, AloneLocals(me).auth)>>
         ELSE <<>>
    ELSE AloneRequestsUpTo(s, me, n - 1) \o AloneLookup(me, n).reqs \o
         (IF AloneFails(me, n) THEN <<>> ELSE AloneCall(s, me, n).reqs)

\* Send s stands inside a call: it has issued a request of the call and
\* awaits the next one.
InsideCall(s) == send[s].asked # <<>>

\* C13: with two sends in flight whose steps interleave at every request
\* of every lookup, post and upload, at every moment the failed_targets of
\* each send are what the same request run alone records on the answers
\* the send met, each of them a target of its own list and none a target
\* of the other send; a send that went through its target list has ended
\* as it would have alone on those answers: it handled every target,
\* raised or returned alike, with the same error text, having issued the
\* same requests in the same order; and the temporary file a send is
\* about to upload is its own, whole, and the file of no other send.
C13_ConcurrentSendsAreIndependent ==
    \A s, t \in SendIds :
        s # t =>
            LET me == send[s]
                other == send[t]
            IN  /\ me.failed_targets = AloneFailedTargets(me)
                /\ \A i \in 1..Len(me.failed_targets) :
                      /\ Named(AloneLocals(me).targets, me.failed_targets[i])
                      /\ ~Named(other.targets, me.failed_targets[i])
                /\ (Done(s) /\ LoopEntered(me)) =>
                      /\ Len(me.met) = Len(AloneLocals(me).targets)
                      /\ me.raised = AloneRaised(me)
                      /\ me.error = AloneError(me)
                      /\ me.log = AloneRequestsUpTo(s, me, Len(me.met))
                /\ me.pc = "upload_temp" =>
                      /\ other.pc = "upload_temp" =>
                            other.temp_file_path # me.temp_file_path
                      /\ \E f \in temp_files :
                            /\ f.path = me.temp_file_path
                            /\ f.bytes = AloneLocals(me).file_content

\* C13 witness: the first send, having resolved its target over three
\* requests and written its temporary file, stands between the client's
\* own lookup and the upload; the second send, in flight meanwhile, has
\* come to stand inside the lookup of its second target after a failed
\* post for its first; and neither has a failure recorded.
C13_Witness ==
    /\ send[1].pc = "upload_temp" /\ Len(send[1].asked) = 2
    /\ Len(send[1].log) = 6
    /\ \E f \in temp_files : f.path = send[1].temp_file_path
    /\ send[2].pc = "loop" /\ InsideCall(2)
    /\ Len(send[2].returned) = 1 /\ ~send[2].returned[1].ok
    /\ send[1].failed_targets = <<>> /\ send[2].failed_targets = <<>>

\* A call of one of the two resolvers that has returned.
LookupDone ==
    call.pc = "done" /\ call.op \in {"_get_channel_id", "_async_get_channel_id"}

\* The reference without its leading '#', and the shape of a channel ID:
\* exactly 26 characters, every one alphanumeric.
WithoutLeadingHash(ref) ==
    IF ref # <<>> /\ ref[1] = "#" THEN Tail(ref) ELSE ref

Alphanumeric(c) ==
    IF Len(c) = 1 THEN c \in Alnum
    ELSE SubSeq(c, 1, 2) \in {"^L", "^N"}

ShapedLikeId(s) == Len(s) = 26 /\ \A i \in 1..Len(s) : Alphanumeric(s[i])

\* C14: a reference that without its leading '#' is 26 alphanumeric
\* characters is returned as it is (without the '#') by both resolvers,
\* and no request is issued, whatever the server would have answered.
C14_ChannelIdIsReturnedUnasked ==
    (LookupDone /\ ShapedLikeId(WithoutLeadingHash(call.channel))) =>
        /\ call.id = WithoutLeadingHash(call.channel)
        /\ call.reqs = <<>>

\* C14 witness: the client lookup returned the ID written with a '#'
\* unasked, on a server whose first team would have answered the slug
\* lookup with another channel.
C14_Witness ==
    /\ LookupDone /\ call.op = "_get_channel_id"
    /\ call.channel = <<"#">> \o IdB
    /\ call.id = IdB /\ call.reqs = <<>>
    /\ call.w.teams # <<>> /\ call.w.teams[1].slugStatus = HTTP_OK

\* The reference without any of its leading '#' characters.
WithoutLeadingHashes(ref) ==
    LET hashes == {k \in 0..Len(ref) : \A i \in 1..k : ref[i] = "#"}
        n == CHOOSE k \in hashes : \A j \in hashes : j <= k
    IN  SubSeq(ref, n + 1, Len(ref))

\* The team list is asked for first and once, and the lookup ends there
\* when the server lists no team.
TeamListComesFirst ==
    /\ call.reqs # <<>> /\ call.reqs[1] = TeamsReq
    /\ \A i \in 2..Len(call.reqs) : call.reqs[i].kind \in {"slug", "channels"}
    /\ (call.w.teamsStatus = HTTP_OK /\ call.w.teams = <<>>) =>
          call.id = None /\ call.reqs = <<TeamsReq>>

\* C15 (as claimed): every reference that is not itself a string of 26
\* alphanumeric characters makes the lookup ask for the team list first,
\* and end there without a channel when no team is listed.
C15_EveryOtherReferenceAsksTeams ==
    (LookupDone /\ ~ShapedLikeId(call.channel)) => TeamListComesFirst

\* C15 (amended): every reference that, with all its leading '#' removed,
\* is not a string of 26 alphanumeric characters makes the lookup ask for
\* the team list first and once, before any channel request, and end
\* there without a channel when the server lists no team.
C15_EveryNameAsksTeamsFirst ==
    (LookupDone /\ ~ShapedLikeId(WithoutLeadingHashes(call.channel))) =>
        TeamListComesFirst

\* C15 witness: the lookup of a reference that is no channel ID (a name,
\* or 26 characters that are not all alphanumeric) on a server that lists
\* no team ended without a channel after the team list alone.
C15_Witness ==
    /\ LookupDone
    /\ call.channel \in {<<"#", "g">>, DashedRef}
    /\ call.w.teamsStatus = HTTP_OK /\ call.w.teams = <<>>
    /\ call.id = None /\ call.reqs = <<TeamsReq>>

\* The lookup of a reference that is no channel ID, on a server that
\* answered the team list.
SearchDone ==
    /\ LookupDone
    /\ ~ShapedLikeId(WithoutLeadingHashes(call.channel))
    /\ call.w.teamsStatus = HTTP_OK

Least(S) == CHOOSE k \in S : \A j \in S : k <= j

\* What the answers of team t say about the channel called name: the slug
\* lookup names it, or the slug lookup was answered otherwise and the
\* channel list holds it under the display name "name" or "#name".
DisplayHits(t, name) ==
    {i \in 1..Len(t.channels) :
        t.channels[i].display_name \in {name, <<"#">> \o name}}

MatchesBySlug(t) == t.slugStatus = HTTP_OK

MatchesByDisplayName(t, name) ==
    /\ t.slugStatus \notin {HTTP_OK, Exc}
    /\ t.chStatus = HTTP_OK
    /\ DisplayHits(t, name) # {}

TeamMatches(t, name) == MatchesBySlug(t) \/ MatchesByDisplayName(t, name)

\* A request to team t raises before the team has given a match.
TeamRaises(t) ==
    \/ t.slugStatus = Exc
    \/ t.slugStatus # HTTP_OK /\ t.chStatus = Exc

\* The id the call gives back for the id the server answered with: the
\* client's lookup hands it on as it is, the dispatcher's resolver gives
\* None for an id that is empty.
HandedOn(id) ==
    IF call.op = "_async_get_channel_id" /\ NoChannel(id) THEN None ELSE id

ChannelOf(t, name) ==
    HandedOn(IF MatchesBySlug(t) THEN t.slugId
             ELSE t.channels[Least(DisplayHits(t, name))].id)

\* The position in the team list of the team a request goes to, and the
\* positions of the teams the lookup sent a request to.
TeamIndex(id) == CHOOSE i \in 1..Len(call.w.teams) : call.w.teams[i].id = id

Visited == {TeamIndex(call.reqs[i].team) : i \in 2..Len(call.reqs)}

\* The requests after the team list go to the teams in the order of the
\* list, none left out; each team is asked for the slug first, under the
\* name without '#', and for its channel list only after that.
InServerOrder ==
    /\ \A i, j \in 2..Len(call.reqs) :
          i < j =>
              /\ TeamIndex(call.reqs[i].team) <= TeamIndex(call.reqs[j].team)
              /\ call.reqs[i].team = call.reqs[j].team =>
                    call.reqs[i].kind = "slug" /\ call.reqs[j].kind = "channels"
    /\ \A i \in 2..Len(call.reqs) :
          /\ call.reqs[i].kind = "slug" =>
                call.reqs[i].name = WithoutLeadingHashes(call.channel)
          /\ call.reqs[i].kind = "channels" =>
                call.reqs[i - 1].kind = "slug"
                    /\ call.reqs[i - 1].team = call.reqs[i].team
    /\ \A k \in Visited : 1..k \subseteq Visited

\* C16 (as claimed): the teams are visited in server order, slug lookup
\* before display-name scan; when some team matches, the lookup returns
\* the channel of the first such team and has queried no later team; and
\* it returns no channel only when no team matches.
C16_FirstMatchingTeamWins ==
    SearchDone =>
        LET teams == call.w.teams
            name == WithoutLeadingHashes(call.channel)
            matching == {k \in 1..Len(teams) : TeamMatches(teams[k], name)}
        IN  /\ InServerOrder
            /\ IF matching = {}
               THEN call.id = None
               ELSE /\ call.id = ChannelOf(teams[Least(matching)], name)
                    /\ Visited = 1..Least(matching)

\* C16 (amended): the teams are visited in server order, slug lookup
\* before display-name scan, up to the first team that matches or at
\* which a request raises; the lookup returns that team's channel when
\* it matches, and no channel when a request raised there or when the
\* list ended without a match or a raised request.
C16_FirstMatchOrRaiseEndsSearch ==
    SearchDone =>
        LET teams == call.w.teams
            name == WithoutLeadingHashes(call.channel)
            stops == {k \in 1..Len(teams) :
                         TeamMatches(teams[k], name) \/ TeamRaises(teams[k])}
        IN  /\ InServerOrder
            /\ IF stops = {}
               THEN call.id = None /\ Visited = 1..Len(teams)
               ELSE /\ Visited = 1..Least(stops)
                    /\ call.id =
                          IF TeamMatches(teams[Least(stops)], name)
                          THEN ChannelOf(teams[Least(stops)], name)
                          ELSE None

\* C16 witness: "#g" was found by display name in the first team, after
\* a slug lookup that missed, and the second team, whose slug lookup
\* would have hit, was not asked.
C16_Witness ==
    /\ SearchDone /\ call.channel = <<"#", "g">>
    /\ Len(call.w.teams) = 2
    /\ call.w.teams[1].slugStatus = 404
    /\ call.w.teams[2].slugStatus = HTTP_OK
    /\ call.id = ShortId
    /\ call.reqs = <<TeamsReq, SlugReq("t1", <<"g">>), ChannelsReq("t1")>>

\* The positions of the slug lookups among the requests of the call, and
\* the team a request went to.
SlugLookups == {i \in 2..Len(call.reqs) : call.reqs[i].kind = "slug"}

TeamAsked(i) == call.w.teams[TeamIndex(call.reqs[i].team)]

\* The slug lookup at position i ended the call, with result id.
EndsLookup(i, id) == i = Len(call.reqs) /\ call.id = id

\* The slug lookup at position i is followed by the request for the
\* channel list of the same team: the display-name scan.
FallsThroughToScan(i) ==
    /\ i < Len(call.reqs)
    /\ call.reqs[i + 1] = ChannelsReq(call.reqs[i].team)

\* C17 (as claimed): a slug lookup answered 200 yields the channel ID,
\* one answered 404 is a miss that goes on to the display-name scan, and
\* one answered with any other status is an error that ends the lookup
\* without a channel and without the scan.
C17_OtherSlugStatusIsAnError ==
    SearchDone =>
        \A i \in SlugLookups :
            /\ TeamAsked(i).slugStatus = HTTP_OK =>
                  EndsLookup(i, HandedOn(TeamAsked(i).slugId))
            /\ TeamAsked(i).slugStatus = 404 => FallsThroughToScan(i)
            /\ TeamAsked(i).slugStatus \notin {HTTP_OK, 404} =>
                  EndsLookup(i, None)

\* C17 (amended): a slug lookup answered 200 yields the channel ID and
\* ends the lookup; one answered with any other status, 404 or not, is a
\* miss that goes on to the display-name scan of the same team; only a
\* slug lookup that raises ends the lookup without a channel.
C17_OnlyOkSlugStatusIsAHit ==
    SearchDone =>
        \A i \in SlugLookups :
            /\ TeamAsked(i).slugStatus = HTTP_OK =>
                  EndsLookup(i, HandedOn(TeamAsked(i).slugId))
            /\ TeamAsked(i).slugStatus \notin {HTTP_OK, Exc} =>
                  FallsThroughToScan(i)
            /\ TeamAsked(i).slugStatus = Exc => EndsLookup(i, None)

\* C17 witness: the slug lookup of "g" in the first team was answered
\* 500, and the lookup went on to that team's channel list and returned
\* the channel found there by display name.
C17_Witness ==
    /\ SearchDone /\ call.channel = <<"g">>
    /\ call.w.teams # <<>> /\ call.w.teams[1].slugStatus = 500
    /\ call.id = IdB
    /\ call.reqs = <<TeamsReq, SlugReq("t1", <<"g">>), ChannelsReq("t1")>>

\* The requests of reqs that carry the bearer token.
WithToken(reqs) == {i \in 1..Len(reqs) : reqs[i].bearer}

\* C18: in every activation the probe is the first request of the
\* connection test and carries no token; the identity request, the only
\* one with the token, is issued only as the second request and only
\* after the probe was answered 200; a probe that fails (another status,
\* or the request raises) fails the test with no request carrying the
\* token.
C18_ProbeGatesIdentity ==
    \A e \in EntryIds :
        LET en == entry[e]
        IN  /\ en.reqs # <<>> => en.reqs[1] = ProbeReq /\ ~en.reqs[1].bearer
            /\ WithToken(en.reqs) # {} =>
                  /\ en.reqs = <<ProbeReq, IdentityReq>>
                  /\ en.probe = HTTP_OK
            /\ (en.probe \notin {NotAsked, HTTP_OK}) =>
                  /\ en.tested /\ ~en.connected
                  /\ en.pc = "idle"
                  /\ en.reqs = <<ProbeReq>>
                  /\ WithToken(en.reqs) = {}
                  /\ en.identity = NotAsked

\* C18 witness: one activation failed on a probe answered 503 without the
\* token being sent, another sent the token after a probe answered 200.
C18_Witness ==
    \E e, f \in EntryIds :
        /\ entry[e].probe = 503 /\ entry[e].reqs = <<ProbeReq>>
        /\ entry[e].tested /\ ~entry[e].connected
        /\ entry[f].probe = HTTP_OK
        /\ entry[f].reqs = <<ProbeReq, IdentityReq>>

\* The call issued a request of the given kind.
Issued(kind) == \E i \in 1..Len(call.reqs) : call.reqs[i].kind = kind

\* The lookup a post or an upload starts with found no channel: the team
\* list request raised, or no team was listed.
OwnLookupFailed ==
    /\ ~ShapedLikeId(call.channel)
    /\ call.w.teamsStatus = Exc \/ call.w.teams = <<>>

\* The requests of the call that belong to a channel lookup, and the
\* answer each of them met: the status of the team list, of the slug
\* lookup or of the channel list of the team asked (Exc: the request
\* raised, or its body could not be read).
LookupRequests ==
    {i \in 1..Len(call.reqs) :
        call.reqs[i].kind \in {"teams", "slug", "channels"}}

Answer(i) ==
    IF call.reqs[i].kind = "teams" THEN call.w.teamsStatus
    ELSE IF call.reqs[i].kind = "slug" THEN TeamAsked(i).slugStatus
    ELSE TeamAsked(i).chStatus

RaisedAt(i) == Answer(i) = Exc

\* A status that reports a failure: any other than 200, a slug lookup
\* answered 404 ("no such channel") being a miss, not a failure.
BadStatusAt(i) ==
    /\ Answer(i) \notin {HTTP_OK, Exc}
    /\ ~(call.reqs[i].kind = "slug" /\ Answer(i) = 404)

\* The request at position i found the channel: a slug lookup answered
\* 200, or a channel list answered 200 that holds the display name.
HitAt(i) ==
    \/ call.reqs[i].kind = "slug" /\ Answer(i) = HTTP_OK
    \/ /\ call.reqs[i].kind = "channels" /\ Answer(i) = HTTP_OK
       /\ DisplayHits(TeamAsked(i), WithoutLeadingHashes(call.channel)) # {}

\* What test_connection, post_message and upload_file give when one of
\* their own requests fails: False, and no request after a failed probe,
\* a lookup without a channel or a file that cannot be opened.
BooleanCallsFail ==
    /\ call.op = "test_connection" =>
          /\ call.probe # HTTP_OK => ~call.ok /\ call.reqs = <<ProbeReq>>
          /\ (call.probe = HTTP_OK /\ call.identity # HTTP_OK) =>
                ~call.ok /\ call.reqs = <<ProbeReq, IdentityReq>>
    /\ call.op = "post_message" =>
          /\ OwnLookupFailed => ~call.ok /\ ~Issued("post")
          /\ call.status # HTTP_CREATED => ~call.ok
    /\ call.op = "upload_file" =>
          /\ (OwnLookupFailed \/ ~call.file.exists) =>
                ~call.ok /\ ~Issued("upload")
          /\ call.status # HTTP_CREATED => ~call.ok

C20_PostedIffCreated ==
    (call.pc = "done" /\ call.op = "post_message") =>
        (call.ok <=> (Issued("post") /\ call.status = HTTP_CREATED))

\* C20 witness: the post request was issued, the endpoint answered 200,
\* and post_message gave False.
C20_Witness ==
    /\ call.pc = "done" /\ call.op = "post_message"
    /\ Issued("post") /\ call.status = HTTP_OK /\ ~call.ok

\* The positions in log of the requests of the given kinds.
RequestsOfKind(log, kinds) == {i \in 1..Len(log) : log[i].kind \in kinds}

\* The client calls of me that issued their post or upload request.
AskedCalls(me) ==
    {i \in 1..Len(me.returned) : me.returned[i].status # NotAsked}

\* C21 (as claimed): a send makes at most one client call per entry of
\* its target list, in list order, and each call issues at most one post
\* or upload request, so none is issued again; and a request that is
\* answered with a status other than 201 or that raises (a timeout) is a
\* failure of its target: the target is in failed_targets, and the send,
\* once it has ended, has raised.
C21_FailedRequestFailsItsTargetOnce ==
    \A s \in SendIds :
        LET me == send[s]
            own == IF me.kind = "text" THEN {"post"} ELSE {"upload"}
        IN  /\ Len(me.returned) <= Len(me.targets)
            /\ Len(me.returned) <= me.idx
            /\ Cardinality(RequestsOfKind(me.log, {"post", "upload"}))
                   = Cardinality(AskedCalls(me))
            /\ RequestsOfKind(me.log, {"post", "upload"})
                   = RequestsOfKind(me.log, own)
            /\ \A i \in 1..Len(me.returned) :
                  /\ Named(me.targets, me.returned[i].target)
                  /\ me.returned[i].status \notin {NotAsked, HTTP_CREATED} =>
                        /\ ~me.returned[i].ok
                        /\ Named(me.failed_targets, me.returned[i].target)
                        /\ Done(s) => me.raised

\* The channel IDs the dispatcher's resolver gave to me.
ResolvedIds(me) ==
    {me.resolved[j].channel_id : j \in 1..Len(me.resolved)}

\* The lookups of the dispatcher's resolver that me has begun: those that
\* have ended and the one in progress.
Resolutions(me) ==
    Len(me.resolved) + (IF me.pc = "loop" /\ me.asked # <<>> THEN 1 ELSE 0)

\* C22: a send issues at most one team list per target it resolved, so
\* none on behalf of a channel ID it already holds; every client call for
\* a resolved target issues its post or upload; and that request carries
\* the ID the resolver gave.
C22_ResolvedOncePerTarget ==
    \A s \in SendIds :
        LET me == send[s]
        IN  /\ Cardinality(RequestsOfKind(me.log, {"teams"}))
                  <= Resolutions(me)
            /\ \A i \in 1..Len(me.returned) :
                  me.returned[i].status # NotAsked
            /\ \A i \in RequestsOfKind(me.log, {"post"}) :
                  me.log[i].json.channel_id \in ResolvedIds(me)
            /\ \A i \in RequestsOfKind(me.log, {"upload"}) :
                  me.log[i].channel_id \in ResolvedIds(me)

\* Data that DATA_SCHEMA refuses: an attachment with an unknown key, a
\* file together with attachments, and a URL with a username but no
\* password.
InvalidData ==
    { [attachments |-> <<ABogus>>],
      [file |-> [path |-> PathOk], attachments |-> <<APlain>>],
      [file |-> [url |-> UrlOk, username |-> <<"u">>]] }

\* C23: a send whose data fails validation goes on as the text send of
\* its title and message alone: it has no attachments and no file, it
\* issues no download and no upload and writes no temporary file, its
\* posts carry the text rendered from title and message and no props,
\* it ends at once without a request when title and message are both
\* empty, and when it raises, its error names unresolved targets only.
C23_InvalidDataBecomesPlainText ==
    \A s \in SendIds :
        LET me == send[s]
            plain == TextMessage(me.title, me.message, <<>>)
        IN  (me.pc \notin {"idle", "start"} /\ me.data \in InvalidData) =>
              /\ IF plain.skip
                 THEN Done(s) /\ me.log = <<>> /\ ~me.raised
                 ELSE me.kind = "text" /\ me.full_message = plain.text
              /\ me.attachments = <<>>
              /\ me.file_content = <<>> /\ me.temp_made = 0
              /\ RequestsOfKind(me.log, {"upload", "download"}) = {}
              /\ \A i \in RequestsOfKind(me.log, {"post"}) :
                    /\ "props" \notin DOMAIN me.log[i].json
                    /\ me.log[i].json.message = plain.text
              /\ me.raised =>
                    /\ Unresolved(me.resolved) # <<>>
                    /\ me.error = SendError(ErrorPrefix("text"),
                                            Unresolved(me.resolved))

\* C23 witness: a send whose data carried a file together with an
\* attachment has ended without an error after posting its text.
C23_Witness ==
    \E s \in SendIds :
        LET me == send[s]
        IN  /\ Done(s) /\ ~me.raised
            /\ me.data = [file |-> [path |-> PathOk],
                          attachments |-> <<APlain>>]
            /\ me.kind = "text"
            /\ RequestsOfKind(me.log, {"post"}) # {}
            /\ RequestsOfKind(me.log, {"upload"}) = {}

\* hass.data[DOMAIN] contains the id of entry e.
IsStored(data, e) == StoredUnder(data, e) # {}

\* The step is an unload call for entry e that changed something.
Unloads(e) ==
    /\ entry[e].pc = "idle" /\ entry'[e].pc = "idle"
    /\ entry'[e] # entry[e]

\* C24 (as claimed): whenever no call for an entry is in flight,
\* hass.data[DOMAIN] contains the entry's id exactly when the last call
\* that completed for it was a successful setup.
C24_StoredIffLastCallWasSetup ==
    \A e \in EntryIds :
        entry[e].pc = "idle" =>
            (IsStored(hass_data, e) <=> entry[e].last = "setup_ok")

\* C24 (amended): an entry whose last completed call was a successful
\* setup is stored, and one that was never set up or whose last completed
\* call was an unload is not, up to the moment a setup in flight stores
\* it; a setup that fails leaves what is stored under the entry as it
\* was, so the data of an earlier successful setup stays; an unload
\* always completes, removes the entry, leaves every other entry's data
\* unchanged, and changes nothing when the entry was not stored; and no
\* step changes what is stored under an entry other than its own.
C24_StoredSinceSetupUntilUnload ==
    [][\A e \in EntryIds :
          /\ (entry'[e].pc = "idle" /\ entry'[e].last = "setup_ok") =>
                IsStored(hass_data', e)
          /\ (entry'[e].pc \in {"idle", "probe", "identity"}
                 /\ entry'[e].last \in {"none", "unloaded"}) =>
                ~IsStored(hass_data', e)
          /\ (entry'[e].last = "not_ready" /\ entry[e].last # "not_ready") =>
                StoredUnder(hass_data', e) = StoredUnder(hass_data, e)
          /\ Unloads(e) =>
                /\ entry'[e].last = "unloaded"
                /\ ~IsStored(hass_data', e)
                /\ \A f \in EntryIds \ {e} :
                      StoredUnder(hass_data', f) = StoredUnder(hass_data, f)
                /\ ~IsStored(hass_data, e) => hass_data' = hass_data
          /\ StoredUnder(hass_data', e) # StoredUnder(hass_data, e) =>
                entry'[e] # entry[e]]_vars

\* C24 witness: one entry was set up and then unloaded and is not stored,
\* while the other, set up before that unload, is still stored with its
\* client.
C24_Witness ==
    \E e, f \in EntryIds :
        /\ e # f
        /\ entry[e].pc = "idle" /\ entry[e].last = "unloaded"
        /\ entry[e].connected /\ ~IsStored(hass_data, e)
        /\ entry[f].pc = "idle" /\ entry[f].last = "setup_ok"
        /\ StoredUnder(hass_data, f) =
               {[client |-> entry[f].client,
                 mattermost_hass_config |-> entry[f].url]}

====
